---- MODULE Spec2Model ----
(***************************************************************************)
(* Epoch-based memory reclamation (crossbeam-epoch).                       *)
(*                                                                         *)
(* The model follows src/src/handle.rs (Handle, LocalEpoch, Scope),        *)
(* src/src/collector.rs (Global, Collector), src/src/epoch.rs (Epoch),     *)
(* src/src/sync/list.rs (registry list) and src/src/sync/ms_queue.rs (bag  *)
(* queue).  Every action is one access to shared memory together with the  *)
(* thread-local computation that follows it, so that all interleavings of  *)
(* the atomic operations of the code are explored under sequential         *)
(* consistency.  A queue operation takes effect at its successful CAS, an  *)
(* insertion into the registry list likewise.  The old sentinel that pop   *)
(* hands to defer_free is tracked in SpecQueueMem only.                    *)
(*                                                                         *)
(* Storage of list nodes is never reused: a freed node keeps its last      *)
(* contents and nstat records that it was freed.                           *)
(*                                                                         *)
(* Spec:            threads use handles (new, pin, defer, flush, drop).    *)
(* SpecCollect:     threads register and call Collector::collect unpinned. *)
(* SpecRetire:      one participant pins, defers and collects unpinned.    *)
(* SpecNested:      reentrant pins and several guards of one participant.  *)
(* SpecUnprotected: defer and flush on unprotected scopes.                 *)
(* SpecList:        insert, delete and iterate on a list (sync/list.rs).   *)
(* SpecQueue:       push and try_pop on a queue (sync/ms_queue.rs).        *)
(* SpecBag:         bags slot by slot (garbage.rs) and the drop of their   *)
(*                  queue.                                                 *)
(* SpecDeferred:    Deferred::new, Deferred::call and the drop of a        *)
(*                  Deferred (deferred.rs).                                *)
(* SpecWrap:        advance, push_bag and collect around the wrap of the   *)
(*                  epoch.                                                 *)
(* SpecTag:         Ptr::from_raw and Ptr::with_tag (atomic.rs).           *)
(* SpecFetch:       Atomic::fetch_and, fetch_or, fetch_xor (atomic.rs).    *)
(* SpecCas:         the compare_and_set family of Atomic (atomic.rs).      *)
(* SpecReclaim:     handles are made, pinned and dropped while             *)
(*                  Collector::collect runs inside a pin.                  *)
(* SpecQueueMem:    push and try_pop in pinned scopes, with the bags and   *)
(*                  the collect that free the nodes of the queue.          *)
(* SpecReclaimFair: SpecReclaim with weak fairness of the steps of         *)
(*                  try_advance.                                           *)
(* SpecListOps:     the whole interface of the list: insert_after and      *)
(*                  iterators that go on after a LostRace.                 *)
(* SpecPins:        one participant pins until its pin counter wraps.      *)
(* SpecPanic:       the function of a pin panics and the stack unwinds.    *)
(***************************************************************************)
EXTENDS Integers, Sequences, FiniteSets, TLC

\* ------------------------------------------------------------------ bounds
\* Number of threads; each owns at most one handle at a time.
NumThreads == 2
\* Number of registry nodes that can ever be allocated (handles ever created).
MaxNodes == 2
\* Number of closures ever passed to defer.
MaxDefer == 2
\* Number of outermost pins ever begun by the users of all handles (the pin
\* inside Drop for Handle is not counted).
MaxPins == 2
\* Capacity of a bag (MAX_OBJECTS, 64 or 4 in the source, scaled down).
MaxObjects == 1
\* Width of the epoch word in bits (usize in the source, scaled down).
EpochBits == 3
\* Width of the pin counter in bits (usize in the source, scaled down).
PinCountBits == 8
\* Number of Handle::pin calls nested inside an outermost one.
MaxNest == 2
\* Number of guards a participant holds at a time.
MaxGuards == 2
\* Number of flush calls ever made on an unprotected scope.
MaxUFlush == 2
\* Number of nodes ever inserted into the list that is modelled on its own.
MaxListNodes == 3
\* Number of items ever pushed into the queue that is modelled on its own.
MaxQueueNodes == 3
\* Capacity of a bag that is modelled slot by slot (MAX_OBJECTS, scaled down).
MaxSlots == 2
\* Number of closures ever put into bags that are modelled slot by slot.
MaxClosures == 3
\* Number of bags ever pushed into the queue that is dropped.
MaxBags == 2
\* Number of Deferred objects ever constructed.
MaxDeferreds == 2
\* Largest size of a closure stored in a Deferred, in words.
MaxWords == 4
\* Number of calls of Deferred::call on one object.
MaxCalls == 3
\* Number of bags in the queue of the collector that runs alone.
MaxWrapBags == 2
\* Width of a pointer word in bits (usize in the source, scaled down).
WordBits == 4
\* Largest alignment of a pointee, as a power of two: align <= 2^MaxAlignLog.
MaxAlignLog == 3

\* -------------------------------------------------------- program constants
COLLECT_STEPS == 8
PINS_BETWEEN_COLLECT == 128
\* The length of Data, the inline storage of a Deferred, in words.
DATA_WORDS == 3
\* The vtable value of a Deferred whose closure is boxed on the heap.
BOXED == 1

EpochMod == 2 ^ EpochBits
Threads == 1 .. NumThreads
Nodes == 1 .. MaxNodes
Epochs == {e \in 0 .. (EpochMod - 1) : e % 2 = 0}
NULL == 0
ListNodes == 1 .. MaxListNodes
QueueNodes == 0 .. MaxQueueNodes
Closures == 1 .. MaxClosures
\* The values of a pointer word.
Words == 0 .. (2 ^ WordBits - 1)
\* mem::align_of::<T>() for the pointees T.
Alignments == {2 ^ k : k \in 0 .. MaxAlignLog}
\* Addresses of pointees of alignment align: null, the lowest and the
\* highest aligned address.
Raws(align) == {0, align, 2 ^ WordBits - align}
\* The words of the pointers a program holds to pointees of alignment align:
\* the addresses with the lowest and the highest tag.
Ptrs(align) == {raw + tag : raw \in Raws(align), tag \in {0, align - 1}}
\* The words of Owned pointers: the address is not null.
Owneds(align) == {w \in Ptrs(align) : w >= align}
\* No value.
NONE == -1
\* An Atomic that has not been made.
NoAtomic == [made |-> FALSE, align |-> 1, data |-> 0, op |-> "none",
             a |-> 0, b |-> 0, ok |-> FALSE, ret |-> NONE, back |-> NONE]
\* A Ptr that has not been made.
NoPtr == [made |-> FALSE, align |-> 1, data |-> 0, raw |-> 0, tag |-> NONE]
Deferreds == 1 .. MaxDeferreds
\* Alignments of a closure, in words: that of usize and one beyond it.
Aligns == {1, 2}
\* Addresses of the vtables of the Callback implementations: not null, and
\* aligned, so never BOXED.
Vtables == {8, 16}
\* A Deferred that has not been constructed.
NoDeferred == [made |-> FALSE, vtable |-> NULL, size |-> 0, align |-> 1,
               calls |-> 0, ran |-> 0, panics |-> 0, msg |-> "",
               dropped |-> FALSE]
\* The epochs that tag the bags of the queue that is dropped.
Tags == {0, 2, 4}
\* A slot of Bag::objects that holds what mem::zeroed made.
ZEROED == 0
\* Bag::new: len 0 and zeroed objects.
NewBag == [len |-> 0, objects |-> [s \in 1 .. MaxSlots |-> ZEROED]]

VARIABLES
    \* shared memory
    epoch,      \* Global.epoch
    head,       \* List.head of Global.registries
    next,       \* NodeInner.next, pointer part
    del,        \* NodeInner.next, tag bit: the node is logically deleted
    state,      \* LocalEpoch.state of each node
    nstat,      \* allocation status of each node
    nnodes,     \* number of nodes allocated so far
    queue,      \* Global.garbages: sequence of (epoch, bag)
    \* thread-local
    hstat,      \* "none" | "live" | "dropping": the thread's handle
    hnode,      \* Handle.local_epoch
    is_pinned,  \* Handle.is_pinned
    pin_count,  \* Handle.pin_count
    frames,     \* was_pinned of the Handle::pin calls nested in the outermost
    guards,     \* guards the participant holds
    guard_count, \* pin depth kept for the guards
    bag,        \* Handle.bag
    pc,         \* position in the running operation
    pin_ep,     \* `epoch` in Handle::pin
    ep,         \* `epoch` in Epoch::try_advance
    cep,        \* `epoch` in Global::collect
    pbe,        \* `epoch` in Global::push_bag
    pred,       \* Iter.pred (NULL: the list head)
    curr,       \* Iter.curr
    succ,       \* `succ` in Iter::next
    steps,      \* loop counter of Global::collect
    cret,       \* where Global::collect returns to
    gret,       \* where defer_garbage / push_bag returns to
    pend,       \* `garbage` waiting in defer_garbage
    unprot,     \* the running collect was given the unprotected scope
    \* history
    npins,      \* number of pins begun by users so far
    ndefer,     \* number of closures deferred so far
    execd,      \* how many times each closure was executed
    defep,      \* global epoch when the closure was deferred
    prot,       \* threads pinned at the defer and still in that pin
    rd0,        \* first global epoch value read inside the current pin
    annat,      \* global epoch when the current pin was announced (-1: none)
    deepest,    \* largest number of pins and guards outstanding at a time
                \* since the participant was last unpinned
    seen,       \* registry entries read by the running traversal
    owner,      \* thread that registered the node
    dropbag,    \* closures in the local bag when the running drop began
    quiet,      \* outermost pins of the handle since the last one whose
                \* pin called collect (-1: the handle has not pinned yet)
    udef,       \* closures passed to defer on an unprotected scope
    uflush,     \* number of flush calls made on an unprotected scope
    lst,        \* a List on its own: head, next and tag of each node, number
                \* of nodes allocated, set of nodes inserted
    itr,        \* per thread: its insert_internal or its Iter on that list
    msq,        \* a MsQueue on its own: head, tail, next of each node, number
                \* of nodes allocated; the items in the order their pushes
                \* took effect, the pops in the order they took effect
    qmem,       \* the collector around that queue: global epoch, handle, state
                \* word and pending collect of each thread, garbage queue,
                \* nodes that reached the garbage queue, freed nodes
    qop,        \* per thread: the locals of its push or pop on that queue
    bg,         \* a Bag slot by slot: len, objects (ZEROED or a closure)
    gq,         \* the bags of a queue of (epoch, Bag), oldest first
    run,        \* what ran: calls of each closure, Drop for Garbage on
                \* zeroed values, closures made, whether the process stopped,
                \* which of the bag and the queue were dropped
    dobj,       \* the Deferred objects: vtable, size and alignment of the
                \* closure, calls of Deferred::call, executions of the
                \* closure, panics and the message of the last one
    wrap,       \* a collector without pinned participants: epoch, number of
                \* advancements, queue of tagged bags, and for every bag
                \* that collect dropped its tag and the epoch of the collect
    tptr,       \* a Ptr: alignment of its pointee, data word, the address it
                \* was made from and the tag last passed to with_tag
    atom,       \* an Atomic: alignment of its pointee and data word; the
                \* last operation on it with its operands (a, b), whether
                \* it was Ok, the Ptr and the Owned it returned
    script      \* position in the sequence collect, pin, collect, pin,
                \* collect of unprotected collects since the last defer

shared == <<epoch, head, next, del, state, nstat, nnodes, queue>>
handle == <<hstat, hnode, is_pinned, pin_count, frames, guards, guard_count,
           bag>>
regs   == <<pin_ep, ep, cep, pbe, pred, curr, succ, steps, cret, gret, pend,
            unprot>>
hist   == <<npins, ndefer, execd, defep, prot, rd0, annat, deepest,
            seen, owner, dropbag, quiet, udef, uflush, script>>
alone  == <<lst, itr, msq, qop, qmem>>
slots  == <<bg, gq, run, dobj, wrap>>
words  == <<tptr, atom>>
vars   == <<shared, handle, regs, pc, hist, alone, slots, words>>

\* ----------------------------------------------------------------- helpers
\* usize::wrapping_add
WrapAdd(a, b) == (a + b) % EpochMod

\* A subtraction that does not wrap.
PlainSub(a, b) == a - b

\* usize::wrapping_sub
WrapSub(a, b) == (a - b + EpochMod) % EpochMod

\* cmp::max in the place of cmp::min.
MinAsMax(a, b) == IF a > b THEN a ELSE b

\* cmp::min
Min(a, b) == IF a < b THEN a ELSE b

\* Bitwise operations on the n low bits of words.
RECURSIVE BitAnd(_, _, _)
BitAnd(a, b, n) ==
    IF n = 0 THEN 0
    ELSE (a % 2) * (b % 2) + 2 * BitAnd(a \div 2, b \div 2, n - 1)

RECURSIVE BitOr(_, _, _)
BitOr(a, b, n) ==
    IF n = 0 THEN 0
    ELSE (IF (a % 2) + (b % 2) > 0 THEN 1 ELSE 0)
             + 2 * BitOr(a \div 2, b \div 2, n - 1)

RECURSIVE BitXor(_, _, _)
BitXor(a, b, n) ==
    IF n = 0 THEN 0
    ELSE ((a + b) % 2) + 2 * BitXor(a \div 2, b \div 2, n - 1)

\* !a on a word.
BitNot(a) == 2 ^ WordBits - 1 - a

\* usize::trailing_zeros of a power of two or any other positive number.
RECURSIVE TrailingZeros(_)
TrailingZeros(a) == IF a % 2 = 1 THEN 0 ELSE 1 + TrailingZeros(a \div 2)

\* A mask that covers the whole word.
low_bits_all(align) == 2 ^ WordBits - 1

\* low_bits::<T>(): (1 << align_of::<T>().trailing_zeros()) - 1
low_bits(align) == 2 ^ TrailingZeros(align) - 1

\* data_with_tag::<T>: (data & !low_bits) | (tag & low_bits)
data_with_tag(data, tag, align) ==
    BitOr(BitAnd(data, BitNot(low_bits(align)), WordBits),
          BitAnd(tag, low_bits(align), WordBits), WordBits)

\* decompose_data::<T>: (data & !low_bits, data & low_bits)
decompose_data(data, align) ==
    <<BitAnd(data, BitNot(low_bits(align)), WordBits),
      BitAnd(data, low_bits(align), WordBits)>>

\* A thread that runs no operation on the list: the locals of
\* insert_internal and the fields of Iter, the nodes the Iter has yielded
\* and the nodes that were inserted when it was made.  tag is the tag of the
\* Ptr the operation holds (next in insert_internal, curr in Iter), to the
\* node insert_after inserts behind (NULL: the head of the list).
IterIdle == [pc |-> "idle", pred |-> NULL, curr |-> NULL, succ |-> NULL,
             tag |-> FALSE, to |-> NULL, yielded |-> {}, start |-> {}]

\* A thread that runs no operation on the queue: the locals of push,
\* push_internal and pop_internal.
QopIdle == [pc |-> "idle", new |-> NULL, onto |-> NULL, next |-> NULL]

\* LocalEpoch::get_state: (state & 1 == 1, state & !1)
StatePinned(w) == w % 2 = 1
StateEpoch(w) == w - (w % 2)

\* A condition that also accepts bags at distance 2.
ConditionNear(e, bag_epoch) ==
    LET diff == WrapSub(e, bag_epoch)
    IN  Min(diff, WrapSub(0, diff)) >= 2

\* The closure `condition` of Global::collect.
Condition(e, bag_epoch) ==
    LET diff == WrapSub(e, bag_epoch)
    IN  Min(diff, WrapSub(0, diff)) > 2

\* Garbage values.
FnGarbage(i) == [k |-> "fn", id |-> i]
NodeGarbage(n) == [k |-> "lnode", id |-> n]
NoGarbage == [k |-> "none", id |-> 0]

\* Bag::try_push succeeds unless the bag is full.
BagFull(b) == Len(b) = MaxObjects

\* The thread has announced a pin in its registry entry.
Announced(q) == hstat[q] # "none" /\ StatePinned(state[hnode[q]])
AnnouncedEpoch(q) == StateEpoch(state[hnode[q]])

\* Closures and nodes held by a bag.
BagFns(b) == {b[i].id : i \in {j \in DOMAIN b : b[j].k = "fn"}}
BagNodes(b) == {b[i].id : i \in {j \in DOMAIN b : b[j].k = "lnode"}}

Init ==
    /\ epoch = 0
    /\ head = NULL
    /\ next = [n \in Nodes |-> NULL]
    /\ del = [n \in Nodes |-> FALSE]
    /\ state = [n \in Nodes |-> 0]
    /\ nstat = [n \in Nodes |-> "unalloc"]
    /\ nnodes = 0
    /\ queue = <<>>
    /\ hstat = [p \in Threads |-> "none"]
    /\ hnode = [p \in Threads |-> NULL]
    /\ is_pinned = [p \in Threads |-> FALSE]
    /\ pin_count = [p \in Threads |-> 0]
    /\ frames = [p \in Threads |-> <<>>]
    /\ guards = [p \in Threads |-> {}]
    /\ guard_count = [p \in Threads |-> 0]
    /\ bag = [p \in Threads |-> <<>>]
    /\ pc = [p \in Threads |-> "idle"]
    /\ pin_ep = [p \in Threads |-> 0]
    /\ ep = [p \in Threads |-> 0]
    /\ cep = [p \in Threads |-> 0]
    /\ pbe = [p \in Threads |-> 0]
    /\ pred = [p \in Threads |-> NULL]
    /\ curr = [p \in Threads |-> NULL]
    /\ succ = [p \in Threads |-> NULL]
    /\ steps = [p \in Threads |-> 0]
    /\ cret = [p \in Threads |-> "idle"]
    /\ gret = [p \in Threads |-> "idle"]
    /\ pend = [p \in Threads |-> NoGarbage]
    /\ unprot = [p \in Threads |-> FALSE]
    /\ npins = 0
    /\ ndefer = 0
    /\ execd = [i \in 1 .. MaxDefer |-> 0]
    /\ defep = [i \in 1 .. MaxDefer |-> 0]
    /\ prot = [i \in 1 .. MaxDefer |-> {}]
    /\ rd0 = [p \in Threads |-> -1]
    /\ annat = [p \in Threads |-> -1]
    /\ deepest = [p \in Threads |-> 0]
    /\ seen = [p \in Threads |-> {}]
    /\ owner = [n \in Nodes |-> 0]
    /\ dropbag = [p \in Threads |-> {}]
    /\ quiet = [p \in Threads |-> -1]
    /\ script = 0
    /\ lst = [head |-> NULL, next |-> [n \in ListNodes |-> NULL],
              del |-> [n \in ListNodes |-> FALSE], n |-> 0, ins |-> {},
              sched |-> [n \in ListNodes |-> 0]]
    /\ itr = [p \in Threads |-> IterIdle]
    /\ msq = [head |-> 0, tail |-> 0, next |-> [n \in QueueNodes |-> NULL],
              n |-> 0, linked |-> <<>>, popped |-> <<>>]
    /\ qop = [p \in Threads |-> QopIdle]
    /\ qmem = [epoch |-> 0, handle |-> [p \in Threads |-> "none"],
               state |-> [p \in Threads |-> 0],
               todo |-> [p \in Threads |-> "none"], queue |-> <<>>,
               flushed |-> {}, freed |-> {}]
    /\ bg = NewBag
    /\ tptr = NoPtr
    /\ atom = NoAtomic
    /\ wrap = [epoch |-> 0, advances |-> 0, queue |-> <<>>, freed |-> {}]
    /\ dobj = [d \in Deferreds |-> NoDeferred]
    /\ gq = <<>>
    /\ run = [ran |-> [k \in Closures |-> 0], zeroed |-> 0, made |-> 0,
              stopped |-> FALSE, bag_dropped |-> FALSE,
              queue_dropped |-> FALSE]
    /\ udef = {}
    /\ uflush = 0

\* ------------------------------------------------------- history updates
\* A read of the global epoch made while the thread's pin is announced.
NoteRead(p, v) ==
    IF Announced(p) /\ rd0[p] = -1
    THEN rd0' = [rd0 EXCEPT ![p] = v]
    ELSE UNCHANGED rd0

\* ------------------------------------------------------------- subroutines
\* Scope::defer_garbage on a pinned scope: push into the local bag; when the
\* bag is full, hand it to Global::push_bag first and push afterwards.
DeferGarbage(p, g, ret) ==
    IF ~BagFull(bag[p])
    THEN /\ bag' = [bag EXCEPT ![p] = Append(@, g)]
         /\ pc' = [pc EXCEPT ![p] = ret]
         /\ UNCHANGED <<pend, gret>>
    ELSE /\ pend' = [pend EXCEPT ![p] = g]
         /\ gret' = [gret EXCEPT ![p] = ret]
         /\ pc' = [pc EXCEPT ![p] = "pb_load"]
         /\ UNCHANGED bag

\* Drop of a bag (garbage.rs): every garbage it holds is dropped, which calls
\* a closure and frees a node.
ExecBag(b) ==
    /\ execd' = [i \in 1 .. MaxDefer |->
                    IF i \in BagFns(b) THEN execd[i] + 1 ELSE execd[i]]
    /\ nstat' = [n \in Nodes |->
                    IF n \in BagNodes(b) THEN "freed" ELSE nstat[n]]

\* Return of Global::collect to its caller.  When the caller is the 1-in-128
\* branch of Handle::pin inside Handle::drop, the closure of drop runs next
\* and calls collect again.
Return(p) ==
    /\ cep' = [cep EXCEPT ![p] = 0]
    /\ steps' = [steps EXCEPT ![p] = 0]
    /\ unprot' = [unprot EXCEPT ![p] = FALSE]
    /\ IF cret[p] = "pin_body" /\ hstat[p] = "dropping"
       THEN /\ pc' = [pc EXCEPT ![p] = "adv_load"]
            /\ cret' = [cret EXCEPT ![p] = "drop_delete"]
       ELSE /\ pc' = [pc EXCEPT ![p] =
                        IF cret[p] = "pin_body" THEN "in_f" ELSE cret[p]]
            /\ cret' = [cret EXCEPT ![p] = "idle"]

\* Return of Epoch::try_advance with value e: its locals and the iterator
\* die, collect keeps e and starts its loop.
Advanced(p, e) ==
    /\ cep' = [cep EXCEPT ![p] = e]
    /\ steps' = [steps EXCEPT ![p] = 0]
    /\ ep' = [ep EXCEPT ![p] = 0]
    /\ pred' = [pred EXCEPT ![p] = NULL]
    /\ curr' = [curr EXCEPT ![p] = NULL]
    /\ succ' = [succ EXCEPT ![p] = NULL]
    /\ seen' = [seen EXCEPT ![p] = {}]
    /\ pc' = [pc EXCEPT ![p] = "col_pop"]

\* Where Iter::next continues: the end of the list ends the traversal.
NextIterPc(c) == IF c = NULL THEN "adv_store" ELSE "iter_next"

\* The first half of Handle::pin when the handle was not pinned: bump the pin
\* counter, set is_pinned and read the global epoch.
BeginPin(p) ==
    /\ pin_count' = [pin_count EXCEPT ![p] = (@ + 1) % (2 ^ PinCountBits)]
    /\ is_pinned' = [is_pinned EXCEPT ![p] = TRUE]
    /\ pin_ep' = [pin_ep EXCEPT ![p] = epoch]

\* The scope guard of Handle::pin: set_unpinned, then clear is_pinned.
EndPin(p) ==
    /\ state' = [state EXCEPT ![hnode[p]] = 0]
    /\ is_pinned' = [is_pinned EXCEPT ![p] = FALSE]
    /\ prot' = [i \in 1 .. MaxDefer |-> prot[i] \ {p}]
    /\ rd0' = [rd0 EXCEPT ![p] = -1]
    /\ annat' = [annat EXCEPT ![p] = -1]
    /\ deepest' = [deepest EXCEPT ![p] = 0]

\* ----------------------------------------------------------------- actions
\* Handle::new: Global::register inserts a fresh LocalEpoch at the list head.
NewHandle(p) ==
    /\ pc[p] = "idle"
    /\ hstat[p] = "none"
    /\ nnodes < MaxNodes
    /\ LET n == nnodes + 1
       IN  /\ nnodes' = n
           /\ next' = [next EXCEPT ![n] = head]
           /\ head' = n
           /\ nstat' = [nstat EXCEPT ![n] = "live"]
           /\ owner' = [owner EXCEPT ![n] = p]
           /\ hnode' = [hnode EXCEPT ![p] = n]
    /\ hstat' = [hstat EXCEPT ![p] = "live"]
    /\ pin_count' = [pin_count EXCEPT ![p] = 0]
    /\ quiet' = [quiet EXCEPT ![p] = -1]
    /\ bag' = [bag EXCEPT ![p] = <<>>]
    /\ UNCHANGED <<epoch, del, state, queue, is_pinned, frames, guards,
                   guard_count, pc, pin_ep, ep, cep, pbe, pred, curr, succ,
                   steps, cret, gret, pend, unprot, npins, ndefer, execd,
                   defep, prot, rd0, annat, deepest, seen, dropbag, udef,
                   uflush, lst, itr, msq, qop, qmem, bg, gq, run, dobj, wrap,
                   tptr, atom, script>>

\* Handle::pin, not yet pinned: counter, is_pinned, load of the global epoch.
PinBegin(p) ==
    /\ pc[p] = "idle"
    /\ hstat[p] = "live"
    /\ npins < MaxPins \/ script \in {1, 3}
    /\ npins' = IF script \in {1, 3} THEN npins ELSE npins + 1
    /\ script' = IF script \in {1, 3} THEN script + 1 ELSE script
    /\ BeginPin(p)
    /\ pc' = [pc EXCEPT ![p] = "pin_announce"]
    /\ UNCHANGED <<epoch, head, next, del, state, nstat, nnodes, queue,
                   hstat, hnode, frames, guards, guard_count, bag, ep, cep,
                   pbe, pred, curr, succ, steps, cret, gret, pend, unprot,
                   ndefer, execd, defep, prot, rd0, annat, deepest, seen,
                   owner, dropbag, quiet, udef, uflush, lst, itr, msq, qop,
                   qmem, bg, gq, run, dobj, wrap, tptr, atom>>

\* Handle::pin, not yet pinned, called any number of times by a thread that
\* does nothing else with its handle.
PinCounted(p) ==
    /\ pc[p] = "idle"
    /\ hstat[p] = "live"
    /\ BeginPin(p)
    /\ pc' = [pc EXCEPT ![p] = "pin_announce"]
    /\ UNCHANGED <<epoch, head, next, del, state, nstat, nnodes, queue,
                   hstat, hnode, frames, guards, guard_count, bag, ep, cep,
                   pbe, pred, curr, succ, steps, cret, gret, pend, unprot,
                   npins, ndefer, execd, defep, prot, rd0, annat, deepest,
                   seen, owner, dropbag, quiet, udef, uflush, lst, itr, msq,
                   qop, qmem, bg, gq, run, dobj, wrap, tptr, atom, script>>

\* A test of the pin counter that looks at the value after the increment.
PinCollectDueAfter(p) == pin_count[p] % PINS_BETWEEN_COLLECT = 0

\* Handle::pin: count % PINS_BETWEEN_COLLECT == 0, where count is the value
\* the pin counter had before this pin incremented it.
PinCollectDue(p) ==
    (pin_count[p] - 1) % PINS_BETWEEN_COLLECT = 0

\* Handle::pin: LocalEpoch::set_pinned, then collect on every 128th pin.
PinAnnounce(p) ==
    /\ pc[p] = "pin_announce"
    /\ state' = [state EXCEPT ![hnode[p]] = pin_ep[p] + 1]
    /\ pin_ep' = [pin_ep EXCEPT ![p] = 0]
    /\ annat' = [annat EXCEPT ![p] = epoch]
    /\ IF PinCollectDue(p)
       THEN /\ pc' = [pc EXCEPT ![p] = "adv_load"]
            /\ cret' = [cret EXCEPT ![p] = "pin_body"]
            /\ quiet' = [quiet EXCEPT ![p] = 0]
       ELSE /\ quiet' = [quiet EXCEPT ![p] = @ + 1]
            /\ IF hstat[p] = "dropping"
               THEN /\ pc' = [pc EXCEPT ![p] = "adv_load"]
                    /\ cret' = [cret EXCEPT ![p] = "drop_delete"]
               ELSE /\ pc' = [pc EXCEPT ![p] = "in_f"]
                    /\ UNCHANGED cret
    /\ UNCHANGED <<epoch, head, next, del, nstat, nnodes, queue, hstat,
                   hnode, is_pinned, pin_count, frames, guards, guard_count,
                   bag, ep, cep, pbe, pred, curr, succ, steps, gret, pend,
                   unprot, npins, ndefer, execd, defep, prot, rd0, deepest,
                   seen, owner, dropbag, udef, uflush, lst, itr, msq, qop,
                   qmem, bg, gq, run, dobj, wrap, tptr, atom, script>>

\* End of the outermost Handle::pin: the calls nested in it have returned.
Unpin(p) ==
    /\ pc[p] = "in_f"
    /\ frames[p] = <<>>
    /\ guard_count[p] = 0
    /\ EndPin(p)
    /\ pc' = [pc EXCEPT ![p] = "idle"]
    /\ UNCHANGED <<epoch, head, next, del, nstat, nnodes, queue, hstat,
                   hnode, pin_count, frames, guards, guard_count, bag,
                   pin_ep, ep, cep, pbe, pred, curr, succ, steps, cret, gret,
                   pend, unprot, npins, ndefer, execd, defep, seen, owner,
                   dropbag, quiet, udef, uflush, lst, itr, msq, qop, qmem,
                   bg, gq, run, dobj, wrap, tptr, atom, script>>

\* A Handle::pin that takes every call for an outermost one.
WasPinnedNever(p) == FALSE

\* Handle::pin: was_pinned, the value of is_pinned when the call begins.
WasPinned(p) == is_pinned[p]

\* Handle::pin called by the function running inside a pin of the same
\* handle: was_pinned is read, and only a call that finds the handle not
\* pinned counts, sets is_pinned and loads the epoch to announce it.
NestedPin(p) ==
    /\ pc[p] = "in_f"
    /\ guard_count[p] = 0
    /\ Len(frames[p]) < MaxNest
    /\ frames' = [frames EXCEPT ![p] = <<WasPinned(p)>> \o @]
    /\ deepest' = [deepest EXCEPT ![p] =
                        IF @ > Len(frames[p]) + 2 THEN @ ELSE Len(frames[p]) + 2]
    /\ IF ~WasPinned(p)
       THEN /\ BeginPin(p)
            /\ pc' = [pc EXCEPT ![p] = "pin_announce"]
       ELSE UNCHANGED <<pin_count, is_pinned, pin_ep, pc>>
    /\ UNCHANGED <<epoch, head, next, del, state, nstat, nnodes, queue,
                   hstat, hnode, guards, guard_count, bag, ep, cep, pbe,
                   pred, curr, succ, steps, cret, gret, pend, unprot, npins,
                   ndefer, execd, defep, prot, rd0, annat, seen, owner,
                   dropbag, quiet, udef, uflush, lst, itr, msq, qop, qmem,
                   bg, gq, run, dobj, wrap, tptr, atom, script>>

\* Return of a nested Handle::pin: its scope guard unpins only when its
\* was_pinned is false.
NestedUnpin(p) ==
    /\ pc[p] = "in_f"
    /\ frames[p] # <<>>
    /\ frames' = [frames EXCEPT ![p] = Tail(@)]
    /\ IF ~Head(frames[p])
       THEN EndPin(p)
       ELSE UNCHANGED <<state, is_pinned, prot, rd0, annat, deepest>>
    /\ UNCHANGED <<epoch, head, next, del, nstat, nnodes, queue, hstat,
                   hnode, pin_count, guards, guard_count, bag, pc, pin_ep,
                   ep, cep, pbe, pred, curr, succ, steps, cret, gret, pend,
                   unprot, npins, ndefer, execd, defep, seen, owner, dropbag,
                   quiet, udef, uflush, lst, itr, msq, qop, qmem, bg, gq,
                   run, dobj, wrap, tptr, atom, script>>

\* The function that runs inside Handle::pin panics: the stack unwinds
\* through the frames of the pins that enclose it.
Panic(p) ==
    /\ pc[p] = "in_f"
    /\ guard_count[p] = 0
    /\ pc' = [pc EXCEPT ![p] = "unwind"]
    /\ UNCHANGED <<epoch, head, next, del, state, nstat, nnodes, queue,
                   hstat, hnode, is_pinned, pin_count, frames, guards,
                   guard_count, bag, pin_ep, ep, cep, pbe, pred, curr, succ,
                   steps, cret, gret, pend, unprot, npins, ndefer, execd,
                   defep, prot, rd0, annat, deepest, seen, owner, dropbag,
                   quiet, udef, uflush, lst, itr, msq, qop, qmem, bg, gq,
                   run, dobj, wrap, tptr, atom, script>>

\* A Handle::pin whose frame is unwound without the scope guard of defer!.
PanicUnwindNoGuard(p) ==
    /\ pc[p] = "unwind"
    /\ IF frames[p] = <<>>
       THEN /\ pc' = [pc EXCEPT ![p] = "idle"]
            /\ UNCHANGED frames
       ELSE /\ frames' = [frames EXCEPT ![p] = Tail(@)]
            /\ \E caught \in BOOLEAN :
                   pc' = [pc EXCEPT ![p] = IF caught THEN "in_f" ELSE "unwind"]
    /\ UNCHANGED <<epoch, head, next, del, state, nstat, nnodes, queue,
                   hstat, hnode, is_pinned, pin_count, guards, guard_count,
                   bag, pin_ep, ep, cep, pbe, pred, curr, succ, steps, cret,
                   gret, pend, unprot, npins, ndefer, execd, defep, prot,
                   rd0, annat, deepest, seen, owner, dropbag, quiet, udef,
                   uflush, lst, itr, msq, qop, qmem, bg, gq, run, dobj, wrap,
                   tptr, atom, script>>

\* The panic unwinds the frame of one Handle::pin, which runs the scope
\* guard of defer!: set_unpinned and is_pinned.set(false) when was_pinned
\* is false.  Behind a nested pin the function of the enclosing pin catches
\* the panic (catch_unwind) and goes on, or the unwinding goes on; behind
\* the outermost pin the panic reaches the caller.
PanicUnwind(p) ==
    /\ pc[p] = "unwind"
    /\ IF frames[p] = <<>>
       THEN /\ EndPin(p)
            /\ pc' = [pc EXCEPT ![p] = "idle"]
            /\ UNCHANGED frames
       ELSE /\ frames' = [frames EXCEPT ![p] = Tail(@)]
            /\ IF ~Head(frames[p])
               THEN EndPin(p)
               ELSE UNCHANGED <<state, is_pinned, prot, rd0, annat, deepest>>
            /\ \E caught \in BOOLEAN :
                   pc' = [pc EXCEPT ![p] = IF caught THEN "in_f" ELSE "unwind"]
    /\ UNCHANGED <<epoch, head, next, del, nstat, nnodes, queue, hstat,
                   hnode, pin_count, guards, guard_count, bag, pin_ep, ep,
                   cep, pbe, pred, curr, succ, steps, cret, gret, pend,
                   unprot, npins, ndefer, execd, defep, seen, owner, dropbag,
                   quiet, udef, uflush, lst, itr, msq, qop, qmem, bg, gq,
                   run, dobj, wrap, tptr, atom, script>>

\* pin() that returns a guard: with a pin depth above 0 the depth is
\* incremented and nothing else happens; at depth 0 the participant pins as
\* in Handle::pin.
GuardPin(p, g) ==
    /\ hstat[p] = "live"
    /\ g \notin guards[p]
    /\ guards' = [guards EXCEPT ![p] = @ \cup {g}]
    /\ guard_count' = [guard_count EXCEPT ![p] = @ + 1]
    /\ deepest' = [deepest EXCEPT ![p] =
                        IF @ > guard_count[p] + 1 THEN @ ELSE guard_count[p] + 1]
    /\ IF guard_count[p] > 0
       THEN /\ pc[p] = "in_f"
            /\ UNCHANGED <<pin_count, is_pinned, pin_ep, pc, npins>>
       ELSE /\ pc[p] = "idle"
            /\ npins < MaxPins
            /\ npins' = npins + 1
            /\ BeginPin(p)
            /\ pc' = [pc EXCEPT ![p] = "pin_announce"]
    /\ UNCHANGED <<epoch, head, next, del, state, nstat, nnodes, queue,
                   hstat, hnode, frames, bag, ep, cep, pbe, pred, curr, succ,
                   steps, cret, gret, pend, unprot, ndefer, execd, defep,
                   prot, rd0, annat, seen, owner, dropbag, quiet, udef,
                   uflush, lst, itr, msq, qop, qmem, bg, gq, run, dobj, wrap,
                   tptr, atom, script>>

\* Drop for Guard: the pin depth is decremented and the participant unpins
\* when it reaches 0.
GuardDrop(p, g) ==
    /\ pc[p] = "in_f"
    /\ g \in guards[p]
    /\ guards' = [guards EXCEPT ![p] = @ \ {g}]
    /\ guard_count' = [guard_count EXCEPT ![p] = @ - 1]
    /\ IF guard_count[p] - 1 = 0
       THEN /\ EndPin(p)
            /\ pc' = [pc EXCEPT ![p] = "idle"]
       ELSE UNCHANGED <<state, is_pinned, prot, rd0, annat, deepest, pc>>
    /\ UNCHANGED <<epoch, head, next, del, nstat, nnodes, queue, hstat,
                   hnode, pin_count, frames, bag, pin_ep, ep, cep, pbe, pred,
                   curr, succ, steps, cret, gret, pend, unprot, npins,
                   ndefer, execd, defep, seen, owner, dropbag, quiet, udef,
                   uflush, lst, itr, msq, qop, qmem, bg, gq, run, dobj, wrap,
                   tptr, atom, script>>

\* Global::get_epoch called by the function running inside the pin.
ReadEpoch(p) ==
    /\ pc[p] = "in_f"
    /\ NoteRead(p, epoch)
    /\ UNCHANGED <<epoch, head, next, del, state, nstat, nnodes, queue,
                   hstat, hnode, is_pinned, pin_count, frames, guards,
                   guard_count, bag, pc, pin_ep, ep, cep, pbe, pred, curr,
                   succ, steps, cret, gret, pend, unprot, npins, ndefer,
                   execd, defep, prot, annat, deepest, seen, owner, dropbag,
                   quiet, udef, uflush, lst, itr, msq, qop, qmem, bg, gq,
                   run, dobj, wrap, tptr, atom, script>>

\* Scope::defer on a pinned scope.
Defer(p) ==
    /\ pc[p] = "in_f"
    /\ ndefer < MaxDefer
    /\ LET i == ndefer + 1
       IN  /\ ndefer' = i
           /\ defep' = [defep EXCEPT ![i] = epoch]
           /\ script' = 0
           /\ prot' = [prot EXCEPT ![i] = {q \in Threads : Announced(q)}]
           /\ DeferGarbage(p, FnGarbage(i), "in_f")
    /\ UNCHANGED <<epoch, head, next, del, state, nstat, nnodes, queue,
                   hstat, hnode, is_pinned, pin_count, frames, guards,
                   guard_count, pin_ep, ep, cep, pbe, pred, curr, succ,
                   steps, cret, unprot, npins, execd, rd0, annat, deepest,
                   seen, owner, dropbag, quiet, udef, uflush, lst, itr, msq,
                   qop, qmem, bg, gq, run, dobj, wrap, tptr, atom>>

\* A garbage that is forgotten instead of dropped.
DropGarbageLeak(g) == UNCHANGED <<execd, nstat>>

\* Drop for Garbage: the closure is called, the object is destroyed.
DropGarbage(g) == ExecBag(<<g>>)

\* Scope::defer on the scope that unprotected() builds: handle is None, the
\* closure given to Option::map in defer_garbage is not called, and the
\* garbage it owns is dropped before defer returns.
UnprotectedDefer(p) ==
    /\ pc[p] \in {"idle", "in_f"}
    /\ ndefer < MaxDefer
    /\ LET i == ndefer + 1
       IN  /\ ndefer' = i
           /\ defep' = [defep EXCEPT ![i] = epoch]
           /\ udef' = udef \cup {i}
           /\ DropGarbage(FnGarbage(i))
    /\ UNCHANGED <<epoch, head, next, del, state, nnodes, queue, hstat,
                   hnode, is_pinned, pin_count, frames, guards, guard_count,
                   bag, pc, pin_ep, ep, cep, pbe, pred, curr, succ, steps,
                   cret, gret, pend, unprot, npins, prot, rd0, annat,
                   deepest, seen, owner, dropbag, quiet, uflush, lst, itr,
                   msq, qop, qmem, bg, gq, run, dobj, wrap, tptr, atom,
                   script>>

\* Scope::flush on the scope that unprotected() builds: handle is None and
\* the closure given to Option::map is not called.
UnprotectedFlush(p) ==
    /\ pc[p] \in {"idle", "in_f"}
    /\ uflush < MaxUFlush
    /\ uflush' = uflush + 1
    /\ UNCHANGED <<epoch, head, next, del, state, nstat, nnodes, queue,
                   hstat, hnode, is_pinned, pin_count, frames, guards,
                   guard_count, bag, pc, pin_ep, ep, cep, pbe, pred, curr,
                   succ, steps, cret, gret, pend, unprot, npins, ndefer,
                   execd, defep, prot, rd0, annat, deepest, seen, owner,
                   dropbag, quiet, udef, lst, itr, msq, qop, qmem, bg, gq,
                   run, dobj, wrap, tptr, atom, script>>

\* A flush that calls collect and leaves the local bag where it is.
FlushKeepsBag(p) ==
    /\ pc[p] = "in_f"
    /\ cret' = [cret EXCEPT ![p] = "in_f"]
    /\ pc' = [pc EXCEPT ![p] = "adv_load"]
    /\ UNCHANGED <<epoch, head, next, del, state, nstat, nnodes, queue,
                   hstat, hnode, is_pinned, pin_count, frames, guards,
                   guard_count, bag, pin_ep, ep, cep, pbe, pred, curr, succ,
                   steps, gret, pend, unprot, npins, ndefer, execd, defep,
                   prot, rd0, annat, deepest, seen, owner, dropbag, quiet,
                   udef, uflush, lst, itr, msq, qop, qmem, bg, gq, run, dobj,
                   wrap, tptr, atom, script>>

\* Scope::flush on a pinned scope: push_bag if the bag is not empty, collect.
Flush(p) ==
    /\ pc[p] = "in_f"
    /\ cret' = [cret EXCEPT ![p] = "in_f"]
    /\ IF bag[p] # <<>>
       THEN /\ pc' = [pc EXCEPT ![p] = "pb_load"]
            /\ gret' = [gret EXCEPT ![p] = "adv_load"]
       ELSE /\ pc' = [pc EXCEPT ![p] = "adv_load"]
            /\ UNCHANGED gret
    /\ UNCHANGED <<epoch, head, next, del, state, nstat, nnodes, queue,
                   hstat, hnode, is_pinned, pin_count, frames, guards,
                   guard_count, bag, pin_ep, ep, cep, pbe, pred, curr, succ,
                   steps, pend, unprot, npins, ndefer, execd, defep, prot,
                   rd0, annat, deepest, seen, owner, dropbag, quiet, udef,
                   uflush, lst, itr, msq, qop, qmem, bg, gq, run, dobj, wrap,
                   tptr, atom, script>>

\* Collector::collect: Global::collect with the unprotected scope.  The
\* caller is not pinned; its safety contract (no handle is accessing the
\* objects of the garbage queue) is the guard: no thread is pinned or about
\* to pin, the others are idle or inside Collector::collect themselves.
Collect(p) ==
    /\ pc[p] = "idle"
    /\ \A q \in Threads \ {p} : pc[q] = "idle" \/ unprot[q]
    /\ cret' = [cret EXCEPT ![p] = "idle"]
    /\ unprot' = [unprot EXCEPT ![p] = TRUE]
    /\ script' = IF script \in {0, 2, 4} THEN script + 1 ELSE script
    /\ pc' = [pc EXCEPT ![p] = "adv_load"]
    /\ UNCHANGED <<epoch, head, next, del, state, nstat, nnodes, queue,
                   hstat, hnode, is_pinned, pin_count, frames, guards,
                   guard_count, bag, pin_ep, ep, cep, pbe, pred, curr, succ,
                   steps, gret, pend, npins, ndefer, execd, defep, prot, rd0,
                   annat, deepest, seen, owner, dropbag, quiet, udef, uflush,
                   lst, itr, msq, qop, qmem, bg, gq, run, dobj, wrap, tptr,
                   atom>>

\* Collector::collect called by the function that runs inside Handle::pin,
\* as tests::pin_holds_advance does while other threads make, pin and drop
\* handles: Global::collect under the unprotected scope.
CollectInPin(p) ==
    /\ pc[p] = "in_f"
    /\ cret' = [cret EXCEPT ![p] = "in_f"]
    /\ unprot' = [unprot EXCEPT ![p] = TRUE]
    /\ pc' = [pc EXCEPT ![p] = "adv_load"]
    /\ UNCHANGED <<epoch, head, next, del, state, nstat, nnodes, queue,
                   hstat, hnode, is_pinned, pin_count, frames, guards,
                   guard_count, bag, pin_ep, ep, cep, pbe, pred, curr, succ,
                   steps, gret, pend, npins, ndefer, execd, defep, prot, rd0,
                   annat, deepest, seen, owner, dropbag, quiet, udef, uflush,
                   lst, itr, msq, qop, qmem, bg, gq, run, dobj, wrap, tptr,
                   atom, script>>

\* Global::push_bag: load of the global epoch.
PbLoad(p) ==
    /\ pc[p] = "pb_load"
    /\ pbe' = [pbe EXCEPT ![p] = epoch]
    /\ NoteRead(p, epoch)
    /\ pc' = [pc EXCEPT ![p] = "pb_push"]
    /\ UNCHANGED <<epoch, head, next, del, state, nstat, nnodes, queue,
                   hstat, hnode, is_pinned, pin_count, frames, guards,
                   guard_count, bag, pin_ep, ep, cep, pred, curr, succ,
                   steps, cret, gret, pend, unprot, npins, ndefer, execd,
                   defep, prot, annat, deepest, seen, owner, dropbag, quiet,
                   udef, uflush, lst, itr, msq, qop, qmem, bg, gq, run, dobj,
                   wrap, tptr, atom, script>>

\* Global::push_bag: the bag is replaced by an empty one and pushed with the
\* epoch loaded before; defer_garbage then pushes the waiting garbage.
PbPush(p) ==
    /\ pc[p] = "pb_push"
    /\ queue' = Append(queue, [ep |-> pbe[p], bag |-> bag[p]])
    /\ bag' = [bag EXCEPT ![p] =
                  IF pend[p] = NoGarbage THEN <<>> ELSE <<pend[p]>>]
    /\ pend' = [pend EXCEPT ![p] = NoGarbage]
    /\ pbe' = [pbe EXCEPT ![p] = 0]
    /\ gret' = [gret EXCEPT ![p] = "idle"]
    /\ pc' = [pc EXCEPT ![p] = gret[p]]
    /\ UNCHANGED <<epoch, head, next, del, state, nstat, nnodes, hstat,
                   hnode, is_pinned, pin_count, frames, guards, guard_count,
                   pin_ep, ep, cep, pred, curr, succ, steps, cret, unprot,
                   npins, ndefer, execd, defep, prot, rd0, annat, deepest,
                   seen, owner, dropbag, quiet, udef, uflush, lst, itr, msq,
                   qop, qmem, bg, gq, run, dobj, wrap, tptr, atom, script>>

\* Epoch::try_advance: load of the global epoch (and the SeqCst fence).
AdvLoad(p) ==
    /\ pc[p] = "adv_load"
    /\ ep' = [ep EXCEPT ![p] = epoch]
    /\ NoteRead(p, epoch)
    /\ seen' = [seen EXCEPT ![p] = {}]
    /\ pc' = [pc EXCEPT ![p] = "iter_init"]
    /\ UNCHANGED <<epoch, head, next, del, state, nstat, nnodes, queue,
                   hstat, hnode, is_pinned, pin_count, frames, guards,
                   guard_count, bag, pin_ep, cep, pbe, pred, curr, succ,
                   steps, cret, gret, pend, unprot, npins, ndefer, execd,
                   defep, prot, annat, deepest, owner, dropbag, quiet, udef,
                   uflush, lst, itr, msq, qop, qmem, bg, gq, run, dobj, wrap,
                   tptr, atom, script>>

\* List::iter: pred is the head, curr its contents.
IterInit(p) ==
    /\ pc[p] = "iter_init"
    /\ pred' = [pred EXCEPT ![p] = NULL]
    /\ curr' = [curr EXCEPT ![p] = head]
    /\ pc' = [pc EXCEPT ![p] = NextIterPc(head)]
    /\ UNCHANGED <<epoch, head, next, del, state, nstat, nnodes, queue,
                   hstat, hnode, is_pinned, pin_count, frames, guards,
                   guard_count, bag, pin_ep, ep, cep, pbe, succ, steps, cret,
                   gret, pend, unprot, npins, ndefer, execd, defep, prot,
                   rd0, annat, deepest, seen, owner, dropbag, quiet, udef,
                   uflush, lst, itr, msq, qop, qmem, bg, gq, run, dobj, wrap,
                   tptr, atom, script>>

\* Iter::next: load of curr.next.  A set tag leads to the unlink attempt,
\* otherwise the iterator moves one step forward and yields the node.
IterNext(p) ==
    /\ pc[p] = "iter_next"
    /\ LET c == curr[p]
       IN  IF del[c]
           THEN /\ succ' = [succ EXCEPT ![p] = next[c]]
                /\ pc' = [pc EXCEPT ![p] = "iter_cas"]
                /\ UNCHANGED <<pred, curr>>
           ELSE /\ pred' = [pred EXCEPT ![p] = c]
                /\ curr' = [curr EXCEPT ![p] = next[c]]
                /\ pc' = [pc EXCEPT ![p] = "adv_check"]
                /\ UNCHANGED succ
    /\ UNCHANGED <<epoch, head, next, del, state, nstat, nnodes, queue,
                   hstat, hnode, is_pinned, pin_count, frames, guards,
                   guard_count, bag, pin_ep, ep, cep, pbe, steps, cret, gret,
                   pend, unprot, npins, ndefer, execd, defep, prot, rd0,
                   annat, deepest, seen, owner, dropbag, quiet, udef, uflush,
                   lst, itr, msq, qop, qmem, bg, gq, run, dobj, wrap, tptr,
                   atom, script>>

\* The word pred points to still holds curr with tag 0.
CasWouldSucceed(p) ==
    IF pred[p] = NULL
    THEN head = curr[p]
    ELSE next[pred[p]] = curr[p] /\ ~del[pred[p]]

\* Iter::next: the CAS on pred succeeds, the node is unlinked and handed to
\* defer_free: deferred under a pinned scope, freed at once under the
\* unprotected scope.
IterUnlink(p) ==
    /\ pc[p] = "iter_cas"
    /\ CasWouldSucceed(p)
    /\ IF pred[p] = NULL
       THEN /\ head' = succ[p]
            /\ UNCHANGED next
       ELSE /\ next' = [next EXCEPT ![pred[p]] = succ[p]]
            /\ UNCHANGED head
    /\ curr' = [curr EXCEPT ![p] = succ[p]]
    /\ IF unprot[p]
       THEN /\ nstat' = [nstat EXCEPT ![curr[p]] = "freed"]
            /\ pc' = [pc EXCEPT ![p] = NextIterPc(succ[p])]
            /\ UNCHANGED <<bag, pend, gret>>
       ELSE /\ DeferGarbage(p, NodeGarbage(curr[p]), NextIterPc(succ[p]))
            /\ UNCHANGED nstat
    /\ UNCHANGED <<epoch, del, state, nnodes, queue, hstat, hnode, is_pinned,
                   pin_count, frames, guards, guard_count, pin_ep, ep, cep,
                   pbe, pred, succ, steps, cret, unprot, npins, ndefer,
                   execd, defep, prot, rd0, annat, deepest, seen, owner,
                   dropbag, quiet, udef, uflush, lst, itr, msq, qop, qmem,
                   bg, gq, run, dobj, wrap, tptr, atom, script>>

\* A lost race after which try_advance goes on to its store.
IterLostRaceStores(p) ==
    /\ pc[p] = "iter_cas"
    /\ pc' = [pc EXCEPT ![p] = "adv_store"]
    /\ UNCHANGED <<epoch, head, next, del, state, nstat, nnodes, queue,
                   hstat, hnode, is_pinned, pin_count, frames, guards,
                   guard_count, bag, pin_ep, ep, cep, pbe, pred, curr, succ,
                   steps, cret, gret, pend, unprot, npins, ndefer, execd,
                   defep, prot, rd0, annat, deepest, seen, owner, dropbag,
                   quiet, udef, uflush, lst, itr, msq, qop, qmem, bg, gq,
                   run, dobj, wrap, tptr, atom, script>>

\* Iter::next: the weak CAS on pred fails (another iterator changed the word,
\* or spuriously); the iterator yields LostRace and try_advance returns the
\* epoch it loaded.
IterLostRace(p) ==
    /\ pc[p] = "iter_cas"
    /\ Advanced(p, ep[p])
    /\ UNCHANGED <<epoch, head, next, del, state, nstat, nnodes, queue,
                   hstat, hnode, is_pinned, pin_count, frames, guards,
                   guard_count, bag, pin_ep, pbe, cret, gret, pend, unprot,
                   npins, ndefer, execd, defep, prot, rd0, annat, deepest,
                   owner, dropbag, quiet, udef, uflush, lst, itr, msq, qop,
                   qmem, bg, gq, run, dobj, wrap, tptr, atom, script>>

\* A decision that lets every entry pass.
AdvanceBlockedNever(w, e) == FALSE

\* try_advance decides on the state word of a yielded entry: the advance goes
\* on unless the entry is pinned in an epoch different from the loaded one.
AdvanceBlocked(w, e) == StatePinned(w) /\ StateEpoch(w) # e

\* Epoch::try_advance: LocalEpoch::get_state of the yielded entry.
AdvCheck(p) ==
    /\ pc[p] = "adv_check"
    /\ LET c == pred[p]
           w == state[c]
       IN  IF AdvanceBlocked(w, ep[p])
           THEN Advanced(p, ep[p])
           ELSE /\ seen' = [seen EXCEPT ![p] = @ \cup
                              {[node |-> c, word |-> w,
                                gen |-> pin_count[owner[c]]]}]
                /\ pc' = [pc EXCEPT ![p] = NextIterPc(curr[p])]
                /\ UNCHANGED <<cep, steps, ep, pred, curr, succ>>
    /\ UNCHANGED <<epoch, head, next, del, state, nstat, nnodes, queue,
                   hstat, hnode, is_pinned, pin_count, frames, guards,
                   guard_count, bag, pin_ep, pbe, cret, gret, pend, unprot,
                   npins, ndefer, execd, defep, prot, rd0, annat, deepest,
                   owner, dropbag, quiet, udef, uflush, lst, itr, msq, qop,
                   qmem, bg, gq, run, dobj, wrap, tptr, atom, script>>

\* A try_advance that begins again after its store.
AdvStoreRetries(p) ==
    /\ pc[p] = "adv_store"
    /\ epoch' = WrapAdd(ep[p], 2)
    /\ pc' = [pc EXCEPT ![p] = "adv_load"]
    /\ UNCHANGED <<head, next, del, state, nstat, nnodes, queue, hstat,
                   hnode, is_pinned, pin_count, frames, guards, guard_count,
                   bag, pin_ep, ep, cep, pbe, pred, curr, succ, steps, cret,
                   gret, pend, unprot, npins, ndefer, execd, defep, prot,
                   rd0, annat, deepest, seen, owner, dropbag, quiet, udef,
                   uflush, lst, itr, msq, qop, qmem, bg, gq, run, dobj, wrap,
                   tptr, atom, script>>

\* Epoch::try_advance: store of epoch + 2 after a complete traversal.
AdvStore(p) ==
    /\ pc[p] = "adv_store"
    /\ epoch' = WrapAdd(ep[p], 2)
    /\ Advanced(p, WrapAdd(ep[p], 2))
    /\ UNCHANGED <<head, next, del, state, nstat, nnodes, queue, hstat,
                   hnode, is_pinned, pin_count, frames, guards, guard_count,
                   bag, pin_ep, pbe, cret, gret, pend, unprot, npins, ndefer,
                   execd, defep, prot, rd0, annat, deepest, owner, dropbag,
                   quiet, udef, uflush, lst, itr, msq, qop, qmem, bg, gq,
                   run, dobj, wrap, tptr, atom, script>>

\* MsQueue::pop_internal: None on an empty queue, otherwise the head is swung
\* to the next node and the data of the new head is read out.
PopInternal(q) ==
    IF q = <<>>
    THEN [queue |-> q, data |-> <<>>]
    ELSE [queue |-> Tail(q), data |-> <<Head(q)>>]

\* A try_pop_if that returns the popped item whatever the condition says.
TryPopAny(q, e) ==
    LET r == PopInternal(q)
    IN  [queue |-> r.queue, ret |-> r.data]

\* A try_pop_if that returns the head it found and leaves it in the queue.
TryPopIfPeek(q, e) ==
    LET r == PopInternal(q)
    IN  IF r.data = <<>>
        THEN [queue |-> r.queue, ret |-> <<>>]
        ELSE IF Condition(e, r.data[1].ep)
             THEN [queue |-> q, ret |-> r.data]
             ELSE [queue |-> r.queue, ret |-> <<>>]

\* MsQueue::try_pop_if: pop_internal first; the popped item is returned when
\* the condition holds and passed to mem::forget otherwise.
TryPopIf(q, e) ==
    LET r == PopInternal(q)
    IN  IF r.data = <<>>
        THEN [queue |-> r.queue, ret |-> <<>>]
        ELSE IF Condition(e, r.data[1].ep)
             THEN [queue |-> r.queue, ret |-> r.data]
             ELSE [queue |-> r.queue, ret |-> <<>>]

\* Global::collect: try_pop_if returned Some(bag); the bag is dropped and the
\* loop goes on for at most COLLECT_STEPS rounds.
ColExec(p) ==
    /\ pc[p] = "col_pop"
    /\ LET r == TryPopIf(queue, cep[p])
       IN  /\ r.ret # <<>>
           /\ queue' = r.queue
           /\ ExecBag(r.ret[1].bag)
    /\ IF steps[p] + 1 = COLLECT_STEPS
       THEN Return(p)
       ELSE /\ steps' = [steps EXCEPT ![p] = @ + 1]
            /\ UNCHANGED <<pc, cep, cret, unprot>>
    /\ UNCHANGED <<epoch, head, next, del, state, nnodes, hstat, hnode,
                   is_pinned, pin_count, frames, guards, guard_count, bag,
                   pin_ep, ep, pbe, pred, curr, succ, gret, pend, npins,
                   ndefer, defep, prot, rd0, annat, deepest, seen, owner,
                   dropbag, quiet, udef, uflush, lst, itr, msq, qop, qmem,
                   bg, gq, run, dobj, wrap, tptr, atom, script>>

\* Global::collect: try_pop_if returned None; the loop breaks and collect
\* returns.
ColBreak(p) ==
    /\ pc[p] = "col_pop"
    /\ LET r == TryPopIf(queue, cep[p])
       IN  /\ r.ret = <<>>
           /\ queue' = r.queue
    /\ Return(p)
    /\ UNCHANGED <<epoch, head, next, del, state, nstat, nnodes, hstat,
                   hnode, is_pinned, pin_count, frames, guards, guard_count,
                   bag, pin_ep, ep, pbe, pred, curr, succ, gret, pend, npins,
                   ndefer, execd, defep, prot, rd0, annat, deepest, seen,
                   owner, dropbag, quiet, udef, uflush, lst, itr, msq, qop,
                   qmem, bg, gq, run, dobj, wrap, tptr, atom, script>>

\* Drop for Handle: the pin that encloses the body of drop.
DropBegin(p) ==
    /\ pc[p] = "idle"
    /\ hstat[p] = "live"
    /\ hstat' = [hstat EXCEPT ![p] = "dropping"]
    /\ dropbag' = [dropbag EXCEPT ![p] = BagFns(bag[p])]
    /\ BeginPin(p)
    /\ pc' = [pc EXCEPT ![p] = "pin_announce"]
    /\ UNCHANGED <<epoch, head, next, del, state, nstat, nnodes, queue,
                   hnode, frames, guards, guard_count, bag, ep, cep, pbe,
                   pred, curr, succ, steps, cret, gret, pend, unprot, npins,
                   ndefer, execd, defep, prot, rd0, annat, deepest, seen,
                   owner, quiet, udef, uflush, lst, itr, msq, qop, qmem, bg,
                   gq, run, dobj, wrap, tptr, atom, script>>

\* Drop for Handle: Node::delete marks the entry, then push_bag is called.
DropDelete(p) ==
    /\ pc[p] = "drop_delete"
    /\ del' = [del EXCEPT ![hnode[p]] = TRUE]
    /\ gret' = [gret EXCEPT ![p] = "drop_unpin"]
    /\ pc' = [pc EXCEPT ![p] = "pb_load"]
    /\ UNCHANGED <<epoch, head, next, state, nstat, nnodes, queue, hstat,
                   hnode, is_pinned, pin_count, frames, guards, guard_count,
                   bag, pin_ep, ep, cep, pbe, pred, curr, succ, steps, cret,
                   pend, unprot, npins, ndefer, execd, defep, prot, rd0,
                   annat, deepest, seen, owner, dropbag, quiet, udef, uflush,
                   lst, itr, msq, qop, qmem, bg, gq, run, dobj, wrap, tptr,
                   atom, script>>

\* Drop for Handle: the pin ends (set_unpinned) and the handle is gone.
DropUnpin(p) ==
    /\ pc[p] = "drop_unpin"
    /\ EndPin(p)
    /\ hstat' = [hstat EXCEPT ![p] = "none"]
    /\ hnode' = [hnode EXCEPT ![p] = NULL]
    /\ dropbag' = [dropbag EXCEPT ![p] = {}]
    /\ pc' = [pc EXCEPT ![p] = "idle"]
    /\ UNCHANGED <<epoch, head, next, del, nstat, nnodes, queue, pin_count,
                   frames, guards, guard_count, bag, pin_ep, ep, cep, pbe,
                   pred, curr, succ, steps, cret, gret, pend, unprot, npins,
                   ndefer, execd, defep, seen, owner, quiet, udef, uflush,
                   lst, itr, msq, qop, qmem, bg, gq, run, dobj, wrap, tptr,
                   atom, script>>

\* ---------------------------------------------------- the list on its own
\* List::insert_internal: the node is allocated and `to` (the head) is
\* loaded.
InsertLoad(p) ==
    /\ itr[p].pc = "idle"
    /\ lst.n < MaxListNodes
    /\ lst' = [lst EXCEPT !.n = @ + 1]
    /\ itr' = [itr EXCEPT ![p] = [IterIdle EXCEPT !.pc = "ins_cas",
                                                  !.curr = lst.n + 1,
                                                  !.succ = lst.head]]
    /\ UNCHANGED <<epoch, head, next, del, state, nstat, nnodes, queue,
                   hstat, hnode, is_pinned, pin_count, frames, guards,
                   guard_count, bag, pc, pin_ep, ep, cep, pbe, pred, curr,
                   succ, steps, cret, gret, pend, unprot, npins, ndefer,
                   execd, defep, prot, rd0, annat, deepest, seen, owner,
                   dropbag, quiet, udef, uflush, msq, qop, qmem, bg, gq, run,
                   dobj, wrap, tptr, atom, script>>

\* A compare-and-set of the head that stores whatever the head holds.
InsertCasAlways(p) == TRUE

\* List::insert_after: insert_internal on the next word of node n, which
\* the caller holds a reference to; the word is loaded with its tag.
InsertAfterLoad(p, n) ==
    /\ itr[p].pc = "idle"
    /\ lst.n < MaxListNodes
    /\ n \in lst.ins
    /\ lst' = [lst EXCEPT !.n = @ + 1]
    /\ itr' = [itr EXCEPT ![p] = [IterIdle EXCEPT !.pc = "ins_cas",
                                                  !.curr = lst.n + 1,
                                                  !.to = n,
                                                  !.succ = lst.next[n],
                                                  !.tag = lst.del[n]]]
    /\ UNCHANGED <<epoch, head, next, del, state, nstat, nnodes, queue,
                   hstat, hnode, is_pinned, pin_count, frames, guards,
                   guard_count, bag, pc, pin_ep, ep, cep, pbe, pred, curr,
                   succ, steps, cret, gret, pend, unprot, npins, ndefer,
                   execd, defep, prot, rd0, annat, deepest, seen, owner,
                   dropbag, quiet, udef, uflush, msq, qop, qmem, bg, gq, run,
                   dobj, wrap, tptr, atom, script>>

\* The word `to` still holds the value insert_internal loaded, tag included.
InsertCasOk(p) ==
    IF itr[p].to = NULL
    THEN lst.head = itr[p].succ /\ ~itr[p].tag
    ELSE /\ lst.next[itr[p].to] = itr[p].succ
         /\ lst.del[itr[p].to] = itr[p].tag

\* List::insert_internal: cur.next is set to the loaded value, tag included,
\* and `to` is compared and set to cur (tag 0); on a failure the loop goes
\* on with the value `to` holds.
InsertCas(p) ==
    /\ itr[p].pc = "ins_cas"
    /\ LET cur == itr[p].curr
           to == itr[p].to
           stored == [lst EXCEPT !.next[cur] = itr[p].succ,
                                 !.del[cur] = itr[p].tag]
       IN  IF InsertCasOk(p)
           THEN /\ lst' = IF to = NULL
                          THEN [stored EXCEPT !.head = cur,
                                              !.ins = @ \cup {cur}]
                          ELSE [stored EXCEPT !.next[to] = cur,
                                              !.del[to] = FALSE,
                                              !.ins = @ \cup {cur}]
                /\ itr' = [itr EXCEPT ![p] = IterIdle]
           ELSE /\ lst' = stored
                /\ itr' = [itr EXCEPT
                              ![p].succ = IF to = NULL THEN lst.head
                                          ELSE lst.next[to],
                              ![p].tag = IF to = NULL THEN FALSE
                                         ELSE lst.del[to]]
    /\ UNCHANGED <<epoch, head, next, del, state, nstat, nnodes, queue,
                   hstat, hnode, is_pinned, pin_count, frames, guards,
                   guard_count, bag, pc, pin_ep, ep, cep, pbe, pred, curr,
                   succ, steps, cret, gret, pend, unprot, npins, ndefer,
                   execd, defep, prot, rd0, annat, deepest, seen, owner,
                   dropbag, quiet, udef, uflush, msq, qop, qmem, bg, gq, run,
                   dobj, wrap, tptr, atom, script>>

\* Node::delete: fetch_or(1) on the next word of an inserted node.
Delete(p, n) ==
    /\ itr[p].pc = "idle"
    /\ n \in lst.ins
    /\ ~lst.del[n]
    /\ lst' = [lst EXCEPT !.del[n] = TRUE]
    /\ UNCHANGED <<epoch, head, next, del, state, nstat, nnodes, queue,
                   hstat, hnode, is_pinned, pin_count, frames, guards,
                   guard_count, bag, pc, pin_ep, ep, cep, pbe, pred, curr,
                   succ, steps, cret, gret, pend, unprot, npins, ndefer,
                   execd, defep, prot, rd0, annat, deepest, seen, owner,
                   dropbag, quiet, udef, uflush, itr, msq, qop, qmem, bg, gq,
                   run, dobj, wrap, tptr, atom, script>>

\* List::iter: pred is the head, curr its contents.
ListIter(p) ==
    /\ itr[p].pc = "idle"
    /\ itr' = [itr EXCEPT ![p] = [IterIdle EXCEPT !.pc = "next",
                                                  !.curr = lst.head,
                                                  !.start = lst.ins]]
    /\ UNCHANGED <<epoch, head, next, del, state, nstat, nnodes, queue,
                   hstat, hnode, is_pinned, pin_count, frames, guards,
                   guard_count, bag, pc, pin_ep, ep, cep, pbe, pred, curr,
                   succ, steps, cret, gret, pend, unprot, npins, ndefer,
                   execd, defep, prot, rd0, annat, deepest, seen, owner,
                   dropbag, quiet, udef, uflush, lst, msq, qop, qmem, bg, gq,
                   run, dobj, wrap, tptr, atom, script>>

\* Iter::next: load of curr.next; a set tag leads to the unlink attempt,
\* otherwise the iterator moves one step forward and yields the node.
ListIterNext(p) ==
    /\ itr[p].pc = "next"
    /\ itr[p].curr # NULL
    /\ LET c == itr[p].curr
       IN  IF lst.del[c]
           THEN itr' = [itr EXCEPT ![p].succ = lst.next[c], ![p].pc = "cas"]
           ELSE itr' = [itr EXCEPT ![p].pred = c,
                                   ![p].curr = lst.next[c],
                                   ![p].tag = FALSE,
                                   ![p].yielded = @ \cup {c}]
    /\ UNCHANGED <<epoch, head, next, del, state, nstat, nnodes, queue,
                   hstat, hnode, is_pinned, pin_count, frames, guards,
                   guard_count, bag, pc, pin_ep, ep, cep, pbe, pred, curr,
                   succ, steps, cret, gret, pend, unprot, npins, ndefer,
                   execd, defep, prot, rd0, annat, deepest, seen, owner,
                   dropbag, quiet, udef, uflush, lst, msq, qop, qmem, bg, gq,
                   run, dobj, wrap, tptr, atom, script>>

\* Iter::next returns None: the end of the list is reached.
ListIterEnd(p) ==
    /\ itr[p].pc = "next"
    /\ itr[p].curr = NULL
    /\ itr' = [itr EXCEPT ![p].pc = "end"]
    /\ UNCHANGED <<epoch, head, next, del, state, nstat, nnodes, queue,
                   hstat, hnode, is_pinned, pin_count, frames, guards,
                   guard_count, bag, pc, pin_ep, ep, cep, pbe, pred, curr,
                   succ, steps, cret, gret, pend, unprot, npins, ndefer,
                   execd, defep, prot, rd0, annat, deepest, seen, owner,
                   dropbag, quiet, udef, uflush, lst, msq, qop, qmem, bg, gq,
                   run, dobj, wrap, tptr, atom, script>>

\* The word pred points to holds curr, with the tag curr has.
ListCasOk(p) ==
    IF itr[p].pred = NULL
    THEN lst.head = itr[p].curr /\ ~itr[p].tag
    ELSE /\ lst.next[itr[p].pred] = itr[p].curr
         /\ lst.del[itr[p].pred] = itr[p].tag

\* Iter::next: the compare-and-set of pred succeeds and unlinks curr, which
\* is handed to defer_free of a pinned scope (its storage is not reused
\* while a thread works on the list).
ListIterUnlink(p) ==
    /\ itr[p].pc = "cas"
    /\ ListCasOk(p)
    /\ lst' = IF itr[p].pred = NULL
              THEN [lst EXCEPT !.head = itr[p].succ,
                               !.sched[itr[p].curr] = @ + 1]
              ELSE [lst EXCEPT !.next[itr[p].pred] = itr[p].succ,
                               !.del[itr[p].pred] = FALSE,
                               !.sched[itr[p].curr] = @ + 1]
    /\ itr' = [itr EXCEPT ![p].curr = itr[p].succ, ![p].tag = FALSE,
                          ![p].pc = "next"]
    /\ UNCHANGED <<epoch, head, next, del, state, nstat, nnodes, queue,
                   hstat, hnode, is_pinned, pin_count, frames, guards,
                   guard_count, bag, pc, pin_ep, ep, cep, pbe, pred, curr,
                   succ, steps, cret, gret, pend, unprot, npins, ndefer,
                   execd, defep, prot, rd0, annat, deepest, seen, owner,
                   dropbag, quiet, udef, uflush, msq, qop, qmem, bg, gq, run,
                   dobj, wrap, tptr, atom, script>>

\* Iter::next: the weak compare-and-set fails, because the word changed or
\* spuriously; LostRace is yielded and the traversal is given up.
ListIterLostRace(p) ==
    /\ itr[p].pc = "cas"
    /\ itr' = [itr EXCEPT ![p] = IterIdle]
    /\ UNCHANGED <<epoch, head, next, del, state, nstat, nnodes, queue,
                   hstat, hnode, is_pinned, pin_count, frames, guards,
                   guard_count, bag, pc, pin_ep, ep, cep, pbe, pred, curr,
                   succ, steps, cret, gret, pend, unprot, npins, ndefer,
                   execd, defep, prot, rd0, annat, deepest, seen, owner,
                   dropbag, quiet, udef, uflush, lst, msq, qop, qmem, bg, gq,
                   run, dobj, wrap, tptr, atom, script>>

\* Iter::next: the weak compare-and-set fails; curr is set to the value the
\* word holds, tag included, LostRace is yielded and the caller calls next
\* again.
ListIterGoOn(p) ==
    /\ itr[p].pc = "cas"
    /\ itr' = [itr EXCEPT
                  ![p].curr = IF itr[p].pred = NULL THEN lst.head
                              ELSE lst.next[itr[p].pred],
                  ![p].tag = IF itr[p].pred = NULL THEN FALSE
                             ELSE lst.del[itr[p].pred],
                  ![p].pc = "next"]
    /\ UNCHANGED <<epoch, head, next, del, state, nstat, nnodes, queue,
                   hstat, hnode, is_pinned, pin_count, frames, guards,
                   guard_count, bag, pc, pin_ep, ep, cep, pbe, pred, curr,
                   succ, steps, cret, gret, pend, unprot, npins, ndefer,
                   execd, defep, prot, rd0, annat, deepest, seen, owner,
                   dropbag, quiet, udef, uflush, lst, msq, qop, qmem, bg, gq,
                   run, dobj, wrap, tptr, atom, script>>

\* The Iter that reached the end of the list is dropped.
ListIterDrop(p) ==
    /\ itr[p].pc = "end"
    /\ itr' = [itr EXCEPT ![p] = IterIdle]
    /\ UNCHANGED <<epoch, head, next, del, state, nstat, nnodes, queue,
                   hstat, hnode, is_pinned, pin_count, frames, guards,
                   guard_count, bag, pc, pin_ep, ep, cep, pbe, pred, curr,
                   succ, steps, cret, gret, pend, unprot, npins, ndefer,
                   execd, defep, prot, rd0, annat, deepest, seen, owner,
                   dropbag, quiet, udef, uflush, lst, msq, qop, qmem, bg, gq,
                   run, dobj, wrap, tptr, atom, script>>

\* --------------------------------------------------- the queue on its own
\* Node 0 is the sentinel that MsQueue::new allocates; node k > 0 holds item
\* k.  A node that pop hands to defer_free of a pinned scope is not reused
\* while a thread works on the queue.
\* MsQueue::push: the node is allocated and the tail is loaded.
Push(p) ==
    /\ qop[p].pc = "idle"
    /\ msq.n < MaxQueueNodes
    /\ msq' = [msq EXCEPT !.n = @ + 1]
    /\ qop' = [qop EXCEPT ![p] = [QopIdle EXCEPT !.pc = "push_next",
                                                 !.new = msq.n + 1,
                                                 !.onto = msq.tail]]
    /\ UNCHANGED <<epoch, head, next, del, state, nstat, nnodes, queue,
                   hstat, hnode, is_pinned, pin_count, frames, guards,
                   guard_count, bag, pc, pin_ep, ep, cep, pbe, pred, curr,
                   succ, steps, cret, gret, pend, unprot, npins, ndefer,
                   execd, defep, prot, rd0, annat, deepest, seen, owner,
                   dropbag, quiet, udef, uflush, lst, itr, qmem, bg, gq, run,
                   dobj, wrap, tptr, atom, script>>

\* MsQueue::push: the loop loads the tail again after push_internal failed.
PushRetry(p) ==
    /\ qop[p].pc = "push_load"
    /\ qop' = [qop EXCEPT ![p].pc = "push_next", ![p].onto = msq.tail]
    /\ UNCHANGED <<epoch, head, next, del, state, nstat, nnodes, queue,
                   hstat, hnode, is_pinned, pin_count, frames, guards,
                   guard_count, bag, pc, pin_ep, ep, cep, pbe, pred, curr,
                   succ, steps, cret, gret, pend, unprot, npins, ndefer,
                   execd, defep, prot, rd0, annat, deepest, seen, owner,
                   dropbag, quiet, udef, uflush, lst, itr, msq, qmem, bg, gq,
                   run, dobj, wrap, tptr, atom, script>>

\* MsQueue::push_internal: load of onto.next.
PushLoadNext(p) ==
    /\ qop[p].pc = "push_next"
    /\ LET nx == msq.next[qop[p].onto]
       IN  qop' = [qop EXCEPT ![p].next = nx,
                              ![p].pc = IF nx # NULL THEN "push_help"
                                        ELSE "push_link"]
    /\ UNCHANGED <<epoch, head, next, del, state, nstat, nnodes, queue,
                   hstat, hnode, is_pinned, pin_count, frames, guards,
                   guard_count, bag, pc, pin_ep, ep, cep, pbe, pred, curr,
                   succ, steps, cret, gret, pend, unprot, npins, ndefer,
                   execd, defep, prot, rd0, annat, deepest, seen, owner,
                   dropbag, quiet, udef, uflush, lst, itr, msq, qmem, bg, gq,
                   run, dobj, wrap, tptr, atom, script>>

\* MsQueue::push_internal: onto is not the actual tail; the tail is moved
\* forward if it still is onto, and the push fails.
PushHelp(p) ==
    /\ qop[p].pc = "push_help"
    /\ msq' = IF msq.tail = qop[p].onto
              THEN [msq EXCEPT !.tail = qop[p].next]
              ELSE msq
    /\ qop' = [qop EXCEPT ![p].pc = "push_load", ![p].next = NULL]
    /\ UNCHANGED <<epoch, head, next, del, state, nstat, nnodes, queue,
                   hstat, hnode, is_pinned, pin_count, frames, guards,
                   guard_count, bag, pc, pin_ep, ep, cep, pbe, pred, curr,
                   succ, steps, cret, gret, pend, unprot, npins, ndefer,
                   execd, defep, prot, rd0, annat, deepest, seen, owner,
                   dropbag, quiet, udef, uflush, lst, itr, qmem, bg, gq, run,
                   dobj, wrap, tptr, atom, script>>

\* MsQueue::push_internal: compare-and-set of onto.next from null to the new
\* node; the push takes effect when it succeeds.
PushLink(p) ==
    /\ qop[p].pc = "push_link"
    /\ IF msq.next[qop[p].onto] = NULL
       THEN /\ msq' = [msq EXCEPT !.next[qop[p].onto] = qop[p].new,
                                  !.linked = Append(@, qop[p].new)]
            /\ qop' = [qop EXCEPT ![p].pc = "push_swing"]
       ELSE /\ qop' = [qop EXCEPT ![p].pc = "push_load"]
            /\ UNCHANGED msq
    /\ UNCHANGED <<epoch, head, next, del, state, nstat, nnodes, queue,
                   hstat, hnode, is_pinned, pin_count, frames, guards,
                   guard_count, bag, pc, pin_ep, ep, cep, pbe, pred, curr,
                   succ, steps, cret, gret, pend, unprot, npins, ndefer,
                   execd, defep, prot, rd0, annat, deepest, seen, owner,
                   dropbag, quiet, udef, uflush, lst, itr, qmem, bg, gq, run,
                   dobj, wrap, tptr, atom, script>>

\* MsQueue::push_internal: the tail is moved to the new node if it still is
\* onto; push returns.
PushSwing(p) ==
    /\ qop[p].pc = "push_swing"
    /\ msq' = IF msq.tail = qop[p].onto
              THEN [msq EXCEPT !.tail = qop[p].new]
              ELSE msq
    /\ qop' = [qop EXCEPT ![p] = QopIdle]
    /\ UNCHANGED <<epoch, head, next, del, state, nstat, nnodes, queue,
                   hstat, hnode, is_pinned, pin_count, frames, guards,
                   guard_count, bag, pc, pin_ep, ep, cep, pbe, pred, curr,
                   succ, steps, cret, gret, pend, unprot, npins, ndefer,
                   execd, defep, prot, rd0, annat, deepest, seen, owner,
                   dropbag, quiet, udef, uflush, lst, itr, qmem, bg, gq, run,
                   dobj, wrap, tptr, atom, script>>

\* MsQueue::try_pop, pop_internal: load of the head.
TryPop(p) ==
    /\ qop[p].pc \in {"idle", "pop_load"}
    /\ qop' = [qop EXCEPT ![p] = [QopIdle EXCEPT !.pc = "pop_next",
                                                 !.onto = msq.head]]
    /\ UNCHANGED <<epoch, head, next, del, state, nstat, nnodes, queue,
                   hstat, hnode, is_pinned, pin_count, frames, guards,
                   guard_count, bag, pc, pin_ep, ep, cep, pbe, pred, curr,
                   succ, steps, cret, gret, pend, unprot, npins, ndefer,
                   execd, defep, prot, rd0, annat, deepest, seen, owner,
                   dropbag, quiet, udef, uflush, lst, itr, msq, qmem, bg, gq,
                   run, dobj, wrap, tptr, atom, script>>

\* MsQueue::pop_internal: load of head.next; None when it is null.
PopLoadNext(p) ==
    /\ qop[p].pc = "pop_next"
    /\ LET nx == msq.next[qop[p].onto]
       IN  qop' = [qop EXCEPT ![p] = IF nx = NULL THEN QopIdle
                                    ELSE [@ EXCEPT !.next = nx,
                                                   !.pc = "pop_cas"]]
    /\ UNCHANGED <<epoch, head, next, del, state, nstat, nnodes, queue,
                   hstat, hnode, is_pinned, pin_count, frames, guards,
                   guard_count, bag, pc, pin_ep, ep, cep, pbe, pred, curr,
                   succ, steps, cret, gret, pend, unprot, npins, ndefer,
                   execd, defep, prot, rd0, annat, deepest, seen, owner,
                   dropbag, quiet, udef, uflush, lst, itr, msq, qmem, bg, gq,
                   run, dobj, wrap, tptr, atom, script>>

\* A compare-and-set of the head that succeeds whatever the head holds.
PopCasAlways(p) == TRUE

\* The head still is the node pop_internal loaded.
PopCasOk(p) == msq.head = qop[p].onto

\* MsQueue::pop_internal: compare-and-set of the head to head.next; on
\* success the old head goes to defer_free and the data of the new head is
\* read out and returned, on failure try_pop calls pop_internal again.
PopCas(p) ==
    /\ qop[p].pc = "pop_cas"
    /\ IF PopCasOk(p)
       THEN /\ msq' = [msq EXCEPT !.head = qop[p].next,
                                  !.popped = Append(@, [by |-> p,
                                                        item |-> qop[p].next])]
            /\ qop' = [qop EXCEPT ![p] = QopIdle]
       ELSE /\ qop' = [qop EXCEPT ![p] = [QopIdle EXCEPT !.pc = "pop_load"]]
            /\ UNCHANGED msq
    /\ UNCHANGED <<epoch, head, next, del, state, nstat, nnodes, queue,
                   hstat, hnode, is_pinned, pin_count, frames, guards,
                   guard_count, bag, pc, pin_ep, ep, cep, pbe, pred, curr,
                   succ, steps, cret, gret, pend, unprot, npins, ndefer,
                   execd, defep, prot, rd0, annat, deepest, seen, owner,
                   dropbag, quiet, udef, uflush, lst, itr, qmem, bg, gq, run,
                   dobj, wrap, tptr, atom, script>>

\* ------------------------------------------- the queue and its collector
\* The queue is used by threads that hold handles of one collector: every
\* push and pop runs in a pinned scope, the old sentinel of a pop goes to
\* the bag of the popping handle, a bag holds MaxObjects objects, and
\* collect frees the nodes of the bags it drops.
\* The scope of thread p is pinned.
Scoped(p) == StatePinned(qmem.state[p])

\* The node that the k-th successful pop handed to defer_free: the head it
\* replaced.
OldHead(k) == IF k = 1 THEN 0 ELSE msq.popped[k - 1].item

\* The successful pops of thread p, by their position among all pops.
PopsBy(p) == {k \in 1 .. Len(msq.popped) : msq.popped[k].by = p}

\* The nodes thread p handed to defer_free that are not in the garbage queue
\* yet: its bag, and with it the node that found the bag full.
LocalBag(p) == {OldHead(k) : k \in PopsBy(p)} \ qmem.flushed

\* The node of the last pop of thread p.
LastDeferred(p) ==
    OldHead(CHOOSE k \in PopsBy(p) : \A j \in PopsBy(p) : j <= k)

\* Scope::defer_garbage has found the bag full: try_push returned the node.
BagOverflow(p) == Cardinality(LocalBag(p)) > MaxObjects

\* Thread p is in the function it passed to Handle::pin, between two calls.
InPin(p) ==
    /\ Scoped(p)
    /\ qop[p].pc = "idle"
    /\ qmem.todo[p] = "none"
    /\ ~BagOverflow(p)

\* Handle::new: the thread registers with the collector.
MemRegister(p) ==
    /\ qmem.handle[p] = "none"
    /\ qmem' = [qmem EXCEPT !.handle[p] = "new"]
    /\ UNCHANGED <<epoch, head, next, del, state, nstat, nnodes, queue,
                   hstat, hnode, is_pinned, pin_count, frames, guards,
                   guard_count, bag, pc, pin_ep, ep, cep, pbe, pred, curr,
                   succ, steps, cret, gret, pend, unprot, npins, ndefer,
                   execd, defep, prot, rd0, annat, deepest, seen, owner,
                   dropbag, quiet, udef, uflush, lst, itr, msq, qop, bg, gq,
                   run, dobj, wrap, tptr, atom, script>>

\* Handle::pin: the global epoch is announced with the pinned bit; the first
\* pin of a handle (pin_count 0) goes on to Global::collect, the pins up to
\* the next multiple of PINS_BETWEEN_COLLECT do not.
MemPin(p) ==
    /\ qmem.handle[p] # "none"
    /\ ~Scoped(p)
    /\ qmem' = [qmem EXCEPT
                   !.state[p] = qmem.epoch + 1,
                   !.handle[p] = "live",
                   !.todo[p] = IF qmem.handle[p] = "new" THEN "collect"
                               ELSE "none"]
    /\ UNCHANGED <<epoch, head, next, del, state, nstat, nnodes, queue,
                   hstat, hnode, is_pinned, pin_count, frames, guards,
                   guard_count, bag, pc, pin_ep, ep, cep, pbe, pred, curr,
                   succ, steps, cret, gret, pend, unprot, npins, ndefer,
                   execd, defep, prot, rd0, annat, deepest, seen, owner,
                   dropbag, quiet, udef, uflush, lst, itr, msq, qop, bg, gq,
                   run, dobj, wrap, tptr, atom, script>>

\* The scope guard of Handle::pin: set_unpinned, once the function has
\* returned.
MemUnpin(p) ==
    /\ InPin(p)
    /\ qmem' = [qmem EXCEPT !.state[p] = 0]
    /\ UNCHANGED <<epoch, head, next, del, state, nstat, nnodes, queue,
                   hstat, hnode, is_pinned, pin_count, frames, guards,
                   guard_count, bag, pc, pin_ep, ep, cep, pbe, pred, curr,
                   succ, steps, cret, gret, pend, unprot, npins, ndefer,
                   execd, defep, prot, rd0, annat, deepest, seen, owner,
                   dropbag, quiet, udef, uflush, lst, itr, msq, qop, bg, gq,
                   run, dobj, wrap, tptr, atom, script>>

\* MsQueue::push called in the function of a pin.
MemPush(p) == InPin(p) /\ Push(p)

\* MsQueue::try_pop called in the function of a pin, and its next round
\* after a lost race.
MemTryPop(p) ==
    /\ Scoped(p)
    /\ qmem.todo[p] = "none"
    /\ ~BagOverflow(p)
    /\ TryPop(p)

\* Scope::defer_garbage at the end of pop_internal when the bag is full:
\* Global::push_bag pushes the bag with the global epoch as its tag, and the
\* node goes into the new bag.
MemDeferFull(p) ==
    /\ BagOverflow(p)
    /\ qop[p].pc = "idle"
    /\ LET full == LocalBag(p) \ {LastDeferred(p)}
       IN  qmem' = [qmem EXCEPT !.queue = Append(@, [ep |-> qmem.epoch,
                                                    bag |-> full]),
                               !.flushed = @ \cup full]
    /\ UNCHANGED <<epoch, head, next, del, state, nstat, nnodes, queue,
                   hstat, hnode, is_pinned, pin_count, frames, guards,
                   guard_count, bag, pc, pin_ep, ep, cep, pbe, pred, curr,
                   succ, steps, cret, gret, pend, unprot, npins, ndefer,
                   execd, defep, prot, rd0, annat, deepest, seen, owner,
                   dropbag, quiet, udef, uflush, lst, itr, msq, qop, bg, gq,
                   run, dobj, wrap, tptr, atom, script>>

\* Scope::flush: Global::push_bag if the bag is not empty; Global::collect
\* follows.
MemFlush(p) ==
    /\ InPin(p)
    /\ qmem' = [qmem EXCEPT
                   !.queue = IF LocalBag(p) = {} THEN @
                             ELSE Append(@, [ep |-> qmem.epoch,
                                             bag |-> LocalBag(p)]),
                   !.flushed = @ \cup LocalBag(p),
                   !.todo[p] = "collect"]
    /\ UNCHANGED <<epoch, head, next, del, state, nstat, nnodes, queue,
                   hstat, hnode, is_pinned, pin_count, frames, guards,
                   guard_count, bag, pc, pin_ep, ep, cep, pbe, pred, curr,
                   succ, steps, cret, gret, pend, unprot, npins, ndefer,
                   execd, defep, prot, rd0, annat, deepest, seen, owner,
                   dropbag, quiet, udef, uflush, lst, itr, msq, qop, bg, gq,
                   run, dobj, wrap, tptr, atom, script>>

\* Epoch::try_advance run without interleaving: every registered entry is
\* examined, and none is pinned in another epoch.
MemCanAdvance ==
    \A q \in Threads :
        qmem.handle[q] # "none" => ~AdvanceBlocked(qmem.state[q], qmem.epoch)

\* The loop of Global::collect: try_pop_if until it returns None, at most
\* `left` times; the nodes of the bags it returned.
RECURSIVE MemCollectLoop(_, _, _)
MemCollectLoop(q, e, left) ==
    IF left = 0
    THEN [queue |-> q, nodes |-> {}]
    ELSE LET r == TryPopIf(q, e)
         IN  IF r.ret = <<>>
             THEN [queue |-> r.queue, nodes |-> {}]
             ELSE LET s == MemCollectLoop(r.queue, e, left - 1)
                  IN  [queue |-> s.queue,
                       nodes |-> s.nodes \cup r.ret[1].bag]

\* Global::collect in a pinned scope: try_advance, then the loop; the nodes
\* of the dropped bags are freed.
MemCollect(p) ==
    /\ Scoped(p)
    /\ qmem.todo[p] = "collect"
    /\ LET e == IF MemCanAdvance THEN WrapAdd(qmem.epoch, 2) ELSE qmem.epoch
           r == MemCollectLoop(qmem.queue, e, COLLECT_STEPS)
       IN  qmem' = [qmem EXCEPT !.epoch = e,
                                !.queue = r.queue,
                                !.freed = @ \cup r.nodes,
                                !.todo[p] = "none"]
    /\ UNCHANGED <<epoch, head, next, del, state, nstat, nnodes, queue,
                   hstat, hnode, is_pinned, pin_count, frames, guards,
                   guard_count, bag, pc, pin_ep, ep, cep, pbe, pred, curr,
                   succ, steps, cret, gret, pend, unprot, npins, ndefer,
                   execd, defep, prot, rd0, annat, deepest, seen, owner,
                   dropbag, quiet, udef, uflush, lst, itr, msq, qop, bg, gq,
                   run, dobj, wrap, tptr, atom, script>>

\* ------------------------------------------------------ bags slot by slot
\* Drop for Garbage on a zeroed value has no defined behaviour: it reads a
\* variant out of zero bytes and calls a null function or unwraps None.  The
\* process stops there (fault, abort or panic) or goes on.
ZeroedDropStops == {TRUE, FALSE}

\* The slots of objects that the drop glue of Bag reaches, in order, when the
\* process stops at slot stop (0: it does not stop).
Reached(stop) == IF stop = 0 THEN 1 .. MaxSlots ELSE 1 .. stop

\* The slots at which the drop of objects can stop: the zeroed ones.
StopsOf(objects) == {0} \cup {s \in 1 .. MaxSlots : objects[s] = ZEROED}

\* The explicit loop of Drop for Bag hands references to drop, which does
\* nothing; the drop glue of the field objects then drops every slot, used
\* or not.  Calls of closure k while the slots in reached are dropped.
BagCalls(objects, reached, k) ==
    Cardinality({s \in reached : objects[s] = k})

\* Drop for Garbage on zeroed values while the slots in reached are dropped.
BagZeroed(objects, reached) ==
    Cardinality({s \in reached : objects[s] = ZEROED})

\* Scope::defer_garbage with Bag::try_insert: a full bag goes to the queue
\* with the tag e and a new bag takes its place; the assignment to
\* objects[len] first drops the zeroed value of the slot.
SlotTryInsert(e) ==
    /\ ~run.stopped /\ ~run.bag_dropped /\ ~run.queue_dropped
    /\ run.made < MaxClosures
    /\ bg.len = MaxSlots => Len(gq) < MaxBags
    /\ LET k == run.made + 1
           b == IF bg.len = MaxSlots THEN NewBag ELSE bg
       IN  /\ gq' = IF bg.len = MaxSlots
                     THEN Append(gq, [ep |-> e, bag |-> bg])
                     ELSE gq
           /\ \E stop \in ZeroedDropStops :
                 /\ run' = [run EXCEPT !.made = k, !.zeroed = @ + 1,
                                       !.stopped = stop]
                 /\ bg' = IF stop THEN b
                          ELSE [len |-> b.len + 1,
                                objects |-> [b.objects EXCEPT ![b.len + 1] = k]]
    /\ UNCHANGED <<epoch, head, next, del, state, nstat, nnodes, queue,
                   hstat, hnode, is_pinned, pin_count, frames, guards,
                   guard_count, bag, pc, pin_ep, ep, cep, pbe, pred, curr,
                   succ, steps, cret, gret, pend, unprot, npins, ndefer,
                   execd, defep, prot, rd0, annat, deepest, seen, owner,
                   dropbag, quiet, udef, uflush, lst, itr, msq, qop, qmem,
                   dobj, wrap, tptr, atom, script>>

\* Queue::migrate_bag: the bag is replaced by Bag::new and pushed with the
\* tag e (Scope::flush pushes a bag that is not empty).
MigrateBag(e) ==
    /\ ~run.stopped /\ ~run.bag_dropped /\ ~run.queue_dropped
    /\ bg.len > 0
    /\ Len(gq) < MaxBags
    /\ gq' = Append(gq, [ep |-> e, bag |-> bg])
    /\ bg' = NewBag
    /\ UNCHANGED <<epoch, head, next, del, state, nstat, nnodes, queue,
                   hstat, hnode, is_pinned, pin_count, frames, guards,
                   guard_count, bag, pc, pin_ep, ep, cep, pbe, pred, curr,
                   succ, steps, cret, gret, pend, unprot, npins, ndefer,
                   execd, defep, prot, rd0, annat, deepest, seen, owner,
                   dropbag, quiet, udef, uflush, lst, itr, msq, qop, qmem,
                   run, dobj, wrap, tptr, atom, script>>

\* Drop for Bag on the bag that is not in the queue.
DropBag ==
    /\ ~run.stopped /\ ~run.bag_dropped
    /\ \E stop \in StopsOf(bg.objects) :
          run' = [run EXCEPT
                     !.ran = [k \in Closures |->
                                 @[k] + BagCalls(bg.objects, Reached(stop), k)],
                     !.zeroed = @ + BagZeroed(bg.objects, Reached(stop)),
                     !.stopped = stop # 0,
                     !.bag_dropped = TRUE]
    /\ UNCHANGED <<epoch, head, next, del, state, nstat, nnodes, queue,
                   hstat, hnode, is_pinned, pin_count, frames, guards,
                   guard_count, bag, pc, pin_ep, ep, cep, pbe, pred, curr,
                   succ, steps, cret, gret, pend, unprot, npins, ndefer,
                   execd, defep, prot, rd0, annat, deepest, seen, owner,
                   dropbag, quiet, udef, uflush, lst, itr, msq, qop, qmem,
                   bg, gq, dobj, wrap, tptr, atom, script>>

\* The slots that are dropped while the bags of q are dropped in order and
\* the process stops in bag at, at slot stop (at = 0: it does not stop).
QueueReached(q, at, stop) ==
    {x \in (1 .. Len(q)) \X (1 .. MaxSlots) :
        at = 0 \/ x[1] < at \/ (x[1] = at /\ x[2] <= stop)}

\* Drop for MsQueue: try_pop until None under the unprotected scope; every
\* (epoch, Bag) popped is dropped at once, whatever its tag; the sentinel is
\* freed without a drop of its data.
DropQueue ==
    /\ ~run.stopped /\ ~run.queue_dropped
    /\ \E at \in 0 .. Len(gq) :
       \E stop \in (IF at = 0 THEN {0}
                     ELSE StopsOf(gq[at].bag.objects) \ {0}) :
          LET reached == QueueReached(gq, at, stop)
          IN  /\ run' = [run EXCEPT
                     !.ran = [k \in Closures |-> @[k] + Cardinality(
                         {x \in reached : gq[x[1]].bag.objects[x[2]] = k})],
                     !.zeroed = @ + Cardinality(
                         {x \in reached :
                             gq[x[1]].bag.objects[x[2]] = ZEROED}),
                     !.stopped = at # 0,
                     !.queue_dropped = TRUE]
              /\ gq' = IF at = 0 THEN <<>> ELSE SubSeq(gq, at, Len(gq))
    /\ UNCHANGED <<epoch, head, next, del, state, nstat, nnodes, queue,
                   hstat, hnode, is_pinned, pin_count, frames, guards,
                   guard_count, bag, pc, pin_ep, ep, cep, pbe, pred, curr,
                   succ, steps, cret, gret, pend, unprot, npins, ndefer,
                   execd, defep, prot, rd0, annat, deepest, seen, owner,
                   dropbag, quiet, udef, uflush, lst, itr, msq, qop, qmem,
                   bg, dobj, wrap, tptr, atom, script>>

\* ---------------------------------------------------------------- Deferred
\* Deferred::new: a closure that fits Data in size and alignment is written
\* into data and vtable is the vtable of its Callback implementation;
\* otherwise it is boxed, the box is written into data and vtable is 1.
StoredInline(size, align) == size <= DATA_WORDS /\ align <= 1

DeferredNew(d, size, align, vt) ==
    /\ ~dobj[d].made
    /\ dobj' = [dobj EXCEPT ![d] =
                   [NoDeferred EXCEPT
                       !.made = TRUE, !.size = size, !.align = align,
                       !.vtable = IF StoredInline(size, align) THEN vt
                                  ELSE BOXED]]
    /\ UNCHANGED <<epoch, head, next, del, state, nstat, nnodes, queue,
                   hstat, hnode, is_pinned, pin_count, frames, guards,
                   guard_count, bag, pc, pin_ep, ep, cep, pbe, pred, curr,
                   succ, steps, cret, gret, pend, unprot, npins, ndefer,
                   execd, defep, prot, rd0, annat, deepest, seen, owner,
                   dropbag, quiet, udef, uflush, lst, itr, msq, qop, qmem,
                   bg, gq, run, wrap, tptr, atom, script>>

\* The message of the assertion of Deferred::call (the source puts FnOnce
\* between backquotes).
CalledTwice == "cannot call FnOnce more than once"

\* A call that leaves the vtable in place.
KeepVtable(v) == v

\* mem::replace(&mut self.vtable, ptr::null_mut()): what is left in vtable.
ReplacedVtable(v) == NULL

\* Deferred::call: the vtable is replaced by null; the assertion panics when
\* it was null already; copy_and_call runs an inline closure, call_box a
\* boxed one.
DeferredCall(d) ==
    /\ dobj[d].made /\ ~dobj[d].dropped
    /\ dobj[d].calls < MaxCalls
    /\ LET vtable == dobj[d].vtable
       IN  dobj' = [dobj EXCEPT ![d] =
                IF vtable = NULL
                THEN [@ EXCEPT !.calls = @ + 1, !.panics = @ + 1,
                               !.msg = CalledTwice]
                ELSE [@ EXCEPT !.calls = @ + 1, !.ran = @ + 1,
                               !.vtable = ReplacedVtable(vtable)]]
    /\ UNCHANGED <<epoch, head, next, del, state, nstat, nnodes, queue,
                   hstat, hnode, is_pinned, pin_count, frames, guards,
                   guard_count, bag, pc, pin_ep, ep, cep, pbe, pred, curr,
                   succ, steps, cret, gret, pend, unprot, npins, ndefer,
                   execd, defep, prot, rd0, annat, deepest, seen, owner,
                   dropbag, quiet, udef, uflush, lst, itr, msq, qop, qmem,
                   bg, gq, run, wrap, tptr, atom, script>>

\* -------------------------------------------- the epoch around its wrap
\* Epoch::try_advance when no registered participant is pinned: the
\* traversal finds nothing that blocks and epoch.wrapping_add(2) is stored.
WrapAdvance ==
    /\ wrap.advances < EpochMod
    /\ wrap' = [wrap EXCEPT !.epoch = WrapAdd(@, 2), !.advances = @ + 1]
    /\ UNCHANGED <<epoch, head, next, del, state, nstat, nnodes, queue,
                   hstat, hnode, is_pinned, pin_count, frames, guards,
                   guard_count, bag, pc, pin_ep, ep, cep, pbe, pred, curr,
                   succ, steps, cret, gret, pend, unprot, npins, ndefer,
                   execd, defep, prot, rd0, annat, deepest, seen, owner,
                   dropbag, quiet, udef, uflush, lst, itr, msq, qop, qmem,
                   bg, gq, run, dobj, tptr, atom, script>>

\* Global::push_bag: a bag is pushed with the global epoch as its tag.
WrapPushBag ==
    /\ Len(wrap.queue) < MaxWrapBags
    /\ wrap' = [wrap EXCEPT !.queue = Append(@, [ep |-> wrap.epoch,
                                                 bag |-> <<>>])]
    /\ UNCHANGED <<epoch, head, next, del, state, nstat, nnodes, queue,
                   hstat, hnode, is_pinned, pin_count, frames, guards,
                   guard_count, bag, pc, pin_ep, ep, cep, pbe, pred, curr,
                   succ, steps, cret, gret, pend, unprot, npins, ndefer,
                   execd, defep, prot, rd0, annat, deepest, seen, owner,
                   dropbag, quiet, udef, uflush, lst, itr, msq, qop, qmem,
                   bg, gq, run, dobj, tptr, atom, script>>

\* Global::collect after its try_advance: one round of the loop, try_pop_if
\* with the condition at the global epoch; a bag that is returned is dropped.
WrapCollect ==
    /\ wrap.queue # <<>>
    /\ LET r == TryPopIf(wrap.queue, wrap.epoch)
       IN  wrap' = [wrap EXCEPT
                       !.queue = r.queue,
                       !.freed = IF r.ret = <<>> THEN @
                                 ELSE @ \cup {<<r.ret[1].ep, wrap.epoch>>}]
    /\ UNCHANGED <<epoch, head, next, del, state, nstat, nnodes, queue,
                   hstat, hnode, is_pinned, pin_count, frames, guards,
                   guard_count, bag, pc, pin_ep, ep, cep, pbe, pred, curr,
                   succ, steps, cret, gret, pend, unprot, npins, ndefer,
                   execd, defep, prot, rd0, annat, deepest, seen, owner,
                   dropbag, quiet, udef, uflush, lst, itr, msq, qop, qmem,
                   bg, gq, run, dobj, tptr, atom, script>>

\* ------------------------------------------------------- tagged pointers
\* Ptr::from_raw: ensure_aligned asserts that the low bits of raw are zero;
\* the data word is the address.
PtrFromRaw(align, raw) ==
    /\ ~tptr.made
    /\ BitAnd(raw, low_bits(align), WordBits) = 0
    /\ tptr' = [made |-> TRUE, align |-> align, data |-> raw, raw |-> raw,
                tag |-> 0]
    /\ UNCHANGED <<epoch, head, next, del, state, nstat, nnodes, queue,
                   hstat, hnode, is_pinned, pin_count, frames, guards,
                   guard_count, bag, pc, pin_ep, ep, cep, pbe, pred, curr,
                   succ, steps, cret, gret, pend, unprot, npins, ndefer,
                   execd, defep, prot, rd0, annat, deepest, seen, owner,
                   dropbag, quiet, udef, uflush, lst, itr, msq, qop, qmem,
                   bg, gq, run, dobj, wrap, atom, script>>

\* Ptr::with_tag: the pointer tagged with tag, which may be any usize.
PtrWithTag(tag) ==
    /\ tptr.made
    /\ tptr' = [tptr EXCEPT !.data = data_with_tag(@, tag, tptr.align),
                            !.tag = tag]
    /\ UNCHANGED <<epoch, head, next, del, state, nstat, nnodes, queue,
                   hstat, hnode, is_pinned, pin_count, frames, guards,
                   guard_count, bag, pc, pin_ep, ep, cep, pbe, pred, curr,
                   succ, steps, cret, gret, pend, unprot, npins, ndefer,
                   execd, defep, prot, rd0, annat, deepest, seen, owner,
                   dropbag, quiet, udef, uflush, lst, itr, msq, qop, qmem,
                   bg, gq, run, dobj, wrap, atom, script>>

\* ------------------------------------------------------------- Atomic
\* Atomic::from_raw, Atomic::null: the data word is the address.
AtomicFromRaw(align, raw) ==
    /\ ~atom.made
    /\ atom' = [NoAtomic EXCEPT !.made = TRUE, !.align = align, !.data = raw]
    /\ UNCHANGED <<epoch, head, next, del, state, nstat, nnodes, queue,
                   hstat, hnode, is_pinned, pin_count, frames, guards,
                   guard_count, bag, pc, pin_ep, ep, cep, pbe, pred, curr,
                   succ, steps, cret, gret, pend, unprot, npins, ndefer,
                   execd, defep, prot, rd0, annat, deepest, seen, owner,
                   dropbag, quiet, udef, uflush, lst, itr, msq, qop, qmem,
                   bg, gq, run, dobj, wrap, tptr, script>>

\* A compare_exchange that reports the expected word on failure.
CompareExchangeEcho(data, current, new, fails) ==
    IF data = current /\ ~fails
    THEN [data |-> new, ok |-> TRUE, previous |-> data]
    ELSE [data |-> data, ok |-> FALSE, previous |-> current]

\* AtomicUsize::compare_exchange and compare_exchange_weak as the methods of
\* Atomic call them: the cell takes new when it holds current; the weak one
\* may fail although it does (fails).
CompareExchange(data, current, new, fails) ==
    IF data = current /\ ~fails
    THEN [data |-> new, ok |-> TRUE, previous |-> data]
    ELSE [data |-> data, ok |-> FALSE, previous |-> data]

\* The cell and the result of compare_and_set and compare_and_set_weak
\* after the compare_exchange r: Ok(()) or Err(Ptr::from_data(previous)).
CasPtr(op, r, current, new) ==
    [atom EXCEPT !.data = r.data, !.op = op, !.a = current, !.b = new,
                 !.ok = r.ok,
                 !.ret = IF r.ok THEN NONE ELSE r.previous,
                 !.back = NONE]

\* The cell and the result of compare_and_set_owned and
\* compare_and_set_weak_owned after the compare_exchange r:
\* Ok(Ptr::from_data(new.data)) with new forgotten, or
\* Err((Ptr::from_data(previous), new)).
CasOwned(op, r, current, new) ==
    [atom EXCEPT !.data = r.data, !.op = op, !.a = current, !.b = new,
                 !.ok = r.ok,
                 !.ret = IF r.ok THEN new ELSE r.previous,
                 !.back = IF r.ok THEN NONE ELSE new]

\* Atomic::compare_and_set
CompareAndSet(current, new) ==
    /\ atom.made
    /\ current \in Ptrs(atom.align)
    /\ new \in Ptrs(atom.align)
    /\ atom' = CasPtr("cas", CompareExchange(atom.data, current, new, FALSE),
                      current, new)
    /\ UNCHANGED <<epoch, head, next, del, state, nstat, nnodes, queue,
                   hstat, hnode, is_pinned, pin_count, frames, guards,
                   guard_count, bag, pc, pin_ep, ep, cep, pbe, pred, curr,
                   succ, steps, cret, gret, pend, unprot, npins, ndefer,
                   execd, defep, prot, rd0, annat, deepest, seen, owner,
                   dropbag, quiet, udef, uflush, lst, itr, msq, qop, qmem,
                   bg, gq, run, dobj, wrap, tptr, script>>

\* Atomic::compare_and_set_weak
CompareAndSetWeak(current, new, fails) ==
    /\ atom.made
    /\ current \in Ptrs(atom.align)
    /\ new \in Ptrs(atom.align)
    /\ atom' = CasPtr("cas_weak",
                      CompareExchange(atom.data, current, new, fails),
                      current, new)
    /\ UNCHANGED <<epoch, head, next, del, state, nstat, nnodes, queue,
                   hstat, hnode, is_pinned, pin_count, frames, guards,
                   guard_count, bag, pc, pin_ep, ep, cep, pbe, pred, curr,
                   succ, steps, cret, gret, pend, unprot, npins, ndefer,
                   execd, defep, prot, rd0, annat, deepest, seen, owner,
                   dropbag, quiet, udef, uflush, lst, itr, msq, qop, qmem,
                   bg, gq, run, dobj, wrap, tptr, script>>

\* Atomic::compare_and_set_owned
CompareAndSetOwned(current, new) ==
    /\ atom.made
    /\ current \in Ptrs(atom.align)
    /\ new \in Owneds(atom.align)
    /\ atom' = CasOwned("cas_owned",
                        CompareExchange(atom.data, current, new, FALSE),
                        current, new)
    /\ UNCHANGED <<epoch, head, next, del, state, nstat, nnodes, queue,
                   hstat, hnode, is_pinned, pin_count, frames, guards,
                   guard_count, bag, pc, pin_ep, ep, cep, pbe, pred, curr,
                   succ, steps, cret, gret, pend, unprot, npins, ndefer,
                   execd, defep, prot, rd0, annat, deepest, seen, owner,
                   dropbag, quiet, udef, uflush, lst, itr, msq, qop, qmem,
                   bg, gq, run, dobj, wrap, tptr, script>>

\* Atomic::compare_and_set_weak_owned
CompareAndSetWeakOwned(current, new, fails) ==
    /\ atom.made
    /\ current \in Ptrs(atom.align)
    /\ new \in Owneds(atom.align)
    /\ atom' = CasOwned("cas_weak_owned",
                        CompareExchange(atom.data, current, new, fails),
                        current, new)
    /\ UNCHANGED <<epoch, head, next, del, state, nstat, nnodes, queue,
                   hstat, hnode, is_pinned, pin_count, frames, guards,
                   guard_count, bag, pc, pin_ep, ep, cep, pbe, pred, curr,
                   succ, steps, cret, gret, pend, unprot, npins, ndefer,
                   execd, defep, prot, rd0, annat, deepest, seen, owner,
                   dropbag, quiet, udef, uflush, lst, itr, msq, qop, qmem,
                   bg, gq, run, dobj, wrap, tptr, script>>

\* The operands of fetch_and with no mask applied.
FetchAndOperandPlain(val, align) == val

\* The operand that Atomic::fetch_and hands to AtomicUsize::fetch_and:
\* val | !low_bits::<T>()
FetchAndOperand(val, align) ==
    BitOr(val, BitNot(low_bits(align)), WordBits)

\* The operand that Atomic::fetch_or and Atomic::fetch_xor hand on:
\* val & low_bits::<T>()
FetchOrOperand(val, align) == BitAnd(val, low_bits(align), WordBits)

\* Atomic::fetch_and: returns the Ptr of the word held before.
FetchAnd(val) ==
    /\ atom.made
    /\ atom' = [atom EXCEPT
                   !.data = BitAnd(@, FetchAndOperand(val, atom.align),
                                   WordBits),
                   !.op = "fetch_and", !.a = val, !.b = 0, !.ok = TRUE,
                   !.ret = atom.data, !.back = NONE]
    /\ UNCHANGED <<epoch, head, next, del, state, nstat, nnodes, queue,
                   hstat, hnode, is_pinned, pin_count, frames, guards,
                   guard_count, bag, pc, pin_ep, ep, cep, pbe, pred, curr,
                   succ, steps, cret, gret, pend, unprot, npins, ndefer,
                   execd, defep, prot, rd0, annat, deepest, seen, owner,
                   dropbag, quiet, udef, uflush, lst, itr, msq, qop, qmem,
                   bg, gq, run, dobj, wrap, tptr, script>>

\* Atomic::fetch_or
FetchOr(val) ==
    /\ atom.made
    /\ atom' = [atom EXCEPT
                   !.data = BitOr(@, FetchOrOperand(val, atom.align),
                                  WordBits),
                   !.op = "fetch_or", !.a = val, !.b = 0, !.ok = TRUE,
                   !.ret = atom.data, !.back = NONE]
    /\ UNCHANGED <<epoch, head, next, del, state, nstat, nnodes, queue,
                   hstat, hnode, is_pinned, pin_count, frames, guards,
                   guard_count, bag, pc, pin_ep, ep, cep, pbe, pred, curr,
                   succ, steps, cret, gret, pend, unprot, npins, ndefer,
                   execd, defep, prot, rd0, annat, deepest, seen, owner,
                   dropbag, quiet, udef, uflush, lst, itr, msq, qop, qmem,
                   bg, gq, run, dobj, wrap, tptr, script>>

\* Atomic::fetch_xor
FetchXor(val) ==
    /\ atom.made
    /\ atom' = [atom EXCEPT
                   !.data = BitXor(@, FetchOrOperand(val, atom.align),
                                   WordBits),
                   !.op = "fetch_xor", !.a = val, !.b = 0, !.ok = TRUE,
                   !.ret = atom.data, !.back = NONE]
    /\ UNCHANGED <<epoch, head, next, del, state, nstat, nnodes, queue,
                   hstat, hnode, is_pinned, pin_count, frames, guards,
                   guard_count, bag, pc, pin_ep, ep, cep, pbe, pred, curr,
                   succ, steps, cret, gret, pend, unprot, npins, ndefer,
                   execd, defep, prot, rd0, annat, deepest, seen, owner,
                   dropbag, quiet, udef, uflush, lst, itr, msq, qop, qmem,
                   bg, gq, run, dobj, wrap, tptr, script>>

\* A Deferred goes out of scope.  The type has no Drop implementation and
\* its fields (a raw pointer and an array of usize) have no drop glue, so
\* neither the closure written into data nor the box is touched.
DeferredDrop(d) ==
    /\ dobj[d].made /\ ~dobj[d].dropped
    /\ dobj' = [dobj EXCEPT ![d].dropped = TRUE]
    /\ UNCHANGED <<epoch, head, next, del, state, nstat, nnodes, queue,
                   hstat, hnode, is_pinned, pin_count, frames, guards,
                   guard_count, bag, pc, pin_ep, ep, cep, pbe, pred, curr,
                   succ, steps, cret, gret, pend, unprot, npins, ndefer,
                   execd, defep, prot, rd0, annat, deepest, seen, owner,
                   dropbag, quiet, udef, uflush, lst, itr, msq, qop, qmem,
                   bg, gq, run, wrap, tptr, atom, script>>

Step(p) ==
    \/ NewHandle(p)
    \/ PinBegin(p)
    \/ PinAnnounce(p)
    \/ Unpin(p)
    \/ ReadEpoch(p)
    \/ Defer(p)
    \/ Flush(p)
    \/ PbLoad(p)
    \/ PbPush(p)
    \/ AdvLoad(p)
    \/ IterInit(p)
    \/ IterNext(p)
    \/ IterUnlink(p)
    \/ IterLostRace(p)
    \/ AdvCheck(p)
    \/ AdvStore(p)
    \/ ColExec(p)
    \/ ColBreak(p)
    \/ DropBegin(p)
    \/ DropDelete(p)
    \/ DropUnpin(p)

Next == \E p \in Threads : Step(p)

Spec == Init /\ [][Next]_vars

\* Threads that only register and call Collector::collect, none of them
\* pinned: the registry holds no deleted entry and the queue stays empty.
StepCollect(p) ==
    \/ NewHandle(p)
    \/ Collect(p)
    \/ AdvLoad(p)
    \/ IterInit(p)
    \/ IterNext(p)
    \/ AdvCheck(p)
    \/ AdvStore(p)
    \/ ColBreak(p)

NextCollect == \E p \in Threads : StepCollect(p)

SpecCollect == Init /\ [][NextCollect]_vars

\* A single participant that pins, defers without flushing, unpins and
\* calls Collector::collect while it is not pinned.  The loop of
\* Global::collect only ever takes its break here (C13_UnflushedStaysLocal).
StepRetire(p) ==
    \/ NewHandle(p)
    \/ PinBegin(p)
    \/ PinAnnounce(p)
    \/ Unpin(p)
    \/ Defer(p)
    \/ PbLoad(p)
    \/ PbPush(p)
    \/ Collect(p)
    \/ AdvLoad(p)
    \/ IterInit(p)
    \/ IterNext(p)
    \/ AdvCheck(p)
    \/ AdvStore(p)
    \/ ColBreak(p)

NextRetire == StepRetire(1)

SpecRetire == Init /\ [][NextRetire]_vars

\* An Atomic is made and compare-and-set operations are applied to it.
NextCas ==
    \/ \E align \in Alignments : \E raw \in Raws(align) :
          AtomicFromRaw(align, raw)
    \/ \E current, new \in Words : CompareAndSet(current, new)
    \/ \E current, new \in Words, fails \in BOOLEAN :
          CompareAndSetWeak(current, new, fails)
    \/ \E current, new \in Words : CompareAndSetOwned(current, new)
    \/ \E current, new \in Words, fails \in BOOLEAN :
          CompareAndSetWeakOwned(current, new, fails)

SpecCas == Init /\ [][NextCas]_vars

\* An Atomic is made and its tag is changed by fetch_and, fetch_or and
\* fetch_xor.
NextFetch ==
    \/ \E align \in Alignments : \E raw \in Raws(align) :
          AtomicFromRaw(align, raw)
    \/ \E val \in Words : FetchAnd(val)
    \/ \E val \in Words : FetchOr(val)
    \/ \E val \in Words : FetchXor(val)

SpecFetch == Init /\ [][NextFetch]_vars

\* A pointer is made from an aligned address and tagged again and again.
NextTag ==
    \/ \E align \in Alignments : \E raw \in Raws(align) :
          PtrFromRaw(align, raw)
    \/ \E tag \in Words : PtrWithTag(tag)

SpecTag == Init /\ [][NextTag]_vars

\* A collector whose epoch advances past the wrap of its word while bags
\* are pushed and collected.
NextWrap ==
    \/ WrapAdvance
    \/ WrapPushBag
    \/ WrapCollect

SpecWrap == Init /\ [][NextWrap]_vars

\* Threads make handles, pin them, call Collector::collect inside the pin
\* and drop the handles.
StepReclaim(p) ==
    \/ NewHandle(p)
    \/ PinBegin(p)
    \/ PinAnnounce(p)
    \/ Unpin(p)
    \/ CollectInPin(p)
    \/ PbLoad(p)
    \/ PbPush(p)
    \/ AdvLoad(p)
    \/ IterInit(p)
    \/ IterNext(p)
    \/ IterUnlink(p)
    \/ IterLostRace(p)
    \/ AdvCheck(p)
    \/ AdvStore(p)
    \/ ColExec(p)
    \/ ColBreak(p)
    \/ DropBegin(p)
    \/ DropDelete(p)
    \/ DropUnpin(p)

NextReclaim == \E p \in Threads : StepReclaim(p)

SpecReclaim == Init /\ [][NextReclaim]_vars

\* The steps of Epoch::try_advance, its iterator and the push_bag that
\* defer_free makes when the local bag is full.
TryAdvanceStep(p) ==
    \/ AdvLoad(p)
    \/ IterInit(p)
    \/ IterNext(p)
    \/ IterUnlink(p)
    \/ IterLostRace(p)
    \/ AdvCheck(p)
    \/ AdvStore(p)
    \/ PbLoad(p)
    \/ PbPush(p)

\* SpecReclaim with threads that go on running: a thread that can take a
\* step of try_advance eventually takes one.
SpecReclaimFair ==
    SpecReclaim /\ \A p \in Threads : WF_vars(TryAdvanceStep(p))

\* Deferred objects are constructed, called and dropped.
NextDeferred ==
    \/ \E d \in Deferreds, size \in 0 .. MaxWords, align \in Aligns,
          vt \in Vtables : DeferredNew(d, size, align, vt)
    \/ \E d \in Deferreds : DeferredCall(d)
    \/ \E d \in Deferreds : DeferredDrop(d)

SpecDeferred == Init /\ [][NextDeferred]_vars

\* A thread fills bags, moves them to the queue and drops the bag and the
\* queue.
NextBag ==
    \/ \E e \in Tags : SlotTryInsert(e)
    \/ \E e \in Tags : MigrateBag(e)
    \/ DropBag
    \/ DropQueue

SpecBag == Init /\ [][NextBag]_vars

\* Threads that push into a queue and pop from it.
StepQueue(p) ==
    \/ Push(p)
    \/ PushRetry(p)
    \/ PushLoadNext(p)
    \/ PushHelp(p)
    \/ PushLink(p)
    \/ PushSwing(p)
    \/ TryPop(p)
    \/ PopLoadNext(p)
    \/ PopCas(p)

NextQueue == \E p \in Threads : StepQueue(p)

SpecQueue == Init /\ [][NextQueue]_vars

\* Threads that hold handles push into a queue and pop from it in pinned
\* scopes, flush their bags and collect.
StepQueueMem(p) ==
    \/ MemRegister(p)
    \/ MemPin(p)
    \/ MemUnpin(p)
    \/ MemDeferFull(p)
    \/ MemFlush(p)
    \/ MemCollect(p)
    \/ MemPush(p)
    \/ MemTryPop(p)
    \/ PushRetry(p)
    \/ PushLoadNext(p)
    \/ PushHelp(p)
    \/ PushLink(p)
    \/ PushSwing(p)
    \/ PopLoadNext(p)
    \/ PopCas(p)

NextQueueMem == \E p \in Threads : StepQueueMem(p)

SpecQueueMem == Init /\ [][NextQueueMem]_vars

\* Threads that insert into a list, delete its nodes and iterate over it.
StepList(p) ==
    \/ InsertLoad(p)
    \/ InsertCas(p)
    \/ \E n \in ListNodes : Delete(p, n)
    \/ ListIter(p)
    \/ ListIterNext(p)
    \/ ListIterEnd(p)
    \/ ListIterUnlink(p)
    \/ ListIterLostRace(p)
    \/ ListIterDrop(p)

NextList == \E p \in Threads : StepList(p)

SpecList == Init /\ [][NextList]_vars

\* Threads that use the whole interface of the list: insert, insert_after,
\* delete, and iterators that are called again after a LostRace.
StepListOps(p) ==
    \/ InsertLoad(p)
    \/ \E n \in ListNodes : InsertAfterLoad(p, n)
    \/ InsertCas(p)
    \/ \E n \in ListNodes : Delete(p, n)
    \/ ListIter(p)
    \/ ListIterNext(p)
    \/ ListIterEnd(p)
    \/ ListIterUnlink(p)
    \/ ListIterGoOn(p)
    \/ ListIterLostRace(p)
    \/ ListIterDrop(p)

NextListOps == \E p \in Threads : StepListOps(p)

SpecListOps == Init /\ [][NextListOps]_vars

\* A participant that defers and flushes on pinned scopes and on
\* unprotected ones.  Alone, it never finds a bag to execute in collect.
StepUnprotected(p) ==
    \/ NewHandle(p)
    \/ PinBegin(p)
    \/ PinAnnounce(p)
    \/ Unpin(p)
    \/ Defer(p)
    \/ Flush(p)
    \/ UnprotectedDefer(p)
    \/ UnprotectedFlush(p)
    \/ PbLoad(p)
    \/ PbPush(p)
    \/ AdvLoad(p)
    \/ IterInit(p)
    \/ IterNext(p)
    \/ AdvCheck(p)
    \/ AdvStore(p)
    \/ ColBreak(p)

NextUnprotected == StepUnprotected(1)

SpecUnprotected == Init /\ [][NextUnprotected]_vars

\* Participants that pin reentrantly: Handle::pin calls nested in one
\* another, or several guards dropped in any order.
StepNested(p) ==
    \/ NewHandle(p)
    \/ PinBegin(p)
    \/ PinAnnounce(p)
    \/ Unpin(p)
    \/ NestedPin(p)
    \/ NestedUnpin(p)
    \/ \E g \in 1 .. MaxGuards : GuardPin(p, g)
    \/ \E g \in 1 .. MaxGuards : GuardDrop(p, g)
    \/ AdvLoad(p)
    \/ IterInit(p)
    \/ IterNext(p)
    \/ AdvCheck(p)
    \/ AdvStore(p)
    \/ ColBreak(p)

NextNested == \E p \in Threads : StepNested(p)

\* Threads whose pinned functions nest pins and panic.
StepPanic(p) ==
    \/ StepNested(p)
    \/ Panic(p)
    \/ PanicUnwind(p)

NextPanic == \E p \in Threads : StepPanic(p)

SpecPanic == Init /\ [][NextPanic]_vars

\* One thread that pins its handle again and again, so that the pin counter
\* passes PINS_BETWEEN_COLLECT and wraps around, nests pins and defers
\* closures.
StepPins(p) ==
    \/ NewHandle(p)
    \/ PinCounted(p)
    \/ PinAnnounce(p)
    \/ Unpin(p)
    \/ NestedPin(p)
    \/ NestedUnpin(p)
    \/ Defer(p)
    \/ PbLoad(p)
    \/ PbPush(p)
    \/ AdvLoad(p)
    \/ IterInit(p)
    \/ IterNext(p)
    \/ AdvCheck(p)
    \/ AdvStore(p)
    \/ ColBreak(p)

NextPins == StepPins(1)

SpecPins == Init /\ [][NextPins]_vars

SpecNested == Init /\ [][NextNested]_vars

TypeOK ==
    /\ epoch \in Epochs
    /\ head \in Nodes \cup {NULL}
    /\ \A p \in Threads : Len(bag[p]) <= MaxObjects
\* ------------------------------------------------------------------ claims
\* Wrap-around distance between two epochs.
Distance(a, b) == Min(WrapSub(a, b), WrapSub(b, a))

\* Closures deferred so far.
Deferred == 1 .. ndefer

\* C1: a function passed to defer through a pinned scope is not executed
\* while a participant that was pinned when defer was called is still inside
\* that same pin.
C1_NoExecWhileProtected ==
    \A i \in Deferred : execd[i] > 0 => prot[i] = {}

\* C2: a closure deferred at global epoch e_def is not executed before every
\* participant that was pinned, at an epoch within distance 2 of e_def, when
\* it was deferred has unpinned.
C2_NoExecBeforeNearPinsEnd ==
    \A i \in Deferred :
        execd[i] > 0 =>
            \A q \in prot[i] : Distance(AnnouncedEpoch(q), defep[i]) > 2
\* The step executes closure i.
Executes(i) == execd'[i] > execd[i]

\* Thread p takes the step and is in the loop of Global::collect.
PopsAt(p) ==
    /\ pc[p] = "col_pop"
    /\ pc'[p] # pc[p] \/ steps'[p] # steps[p]

\* More than one advancement lies between the two epochs, in either
\* direction.
Far(a, b) == WrapSub(a, b) > 2 /\ WrapSub(b, a) > 2

\* C4: when collect executes the closures of a queued bag tagged e_def, the
\* epoch e_now its try_advance returned is at wrap-around distance greater
\* than 2 from e_def; a bag within one advancement of e_now is not executed.
C4_ExecOnlyFarBags ==
    [][\A i \in Deferred :
          Executes(i) =>
              \E p \in Threads :
                  /\ PopsAt(p)
                  /\ queue # <<>>
                  /\ i \in BagFns(Head(queue).bag)
                  /\ queue' = Tail(queue)
                  /\ Far(cep[p], Head(queue).ep)]_vars

\* A closure of a bag has been executed by a collect that is still in its
\* loop.
C4_Witness ==
    \E i \in Deferred, p \in Threads :
        execd[i] = 1 /\ pc[p] = "col_pop" /\ steps[p] > 0
\* The epoch d lies at least one advancement before the epoch e.
Older(d, e) == WrapSub(e, d) >= 2 /\ WrapSub(e, d) < EpochMod \div 2

Queued(i) == \E k \in DOMAIN queue : i \in BagFns(queue[k].bag)

HeldLocally(i) ==
    \E p \in Threads : i \in BagFns(bag[p]) \/ pend[p] = FnGarbage(i)

\* C5: every closure passed to defer is eventually executed, also when its
\* bag was inspected by collect before it was reclaimable: a closure that
\* has not been executed is still held by a bag or by the queue.
C5_DeferredNeverLost ==
    \A i \in Deferred : execd[i] > 0 \/ HeldLocally(i) \/ Queued(i)

\* C6: try_pop_if removes and returns the head item iff the predicate holds
\* for it; otherwise the queue is left unchanged.
C6_TryPopIfFrame ==
    [][\A p \in Threads :
          PopsAt(p) =>
              IF queue # <<>> /\ Far(cep[p], Head(queue).ep)
              THEN queue' = Tail(queue)
              ELSE queue' = queue]_vars

\* Thread p takes the step and loads the global epoch in try_advance or in
\* push_bag.
LoadsEpoch(p) ==
    /\ pc[p] \in {"adv_load", "pb_load"}
    /\ pc'[p] # pc[p]

\* C7: two reads of the global epoch made inside one pin differ by 0 or 2.
C7_OneAdvancementPerPin ==
    [][\A p \in Threads :
          (LoadsEpoch(p) /\ Announced(p) /\ rd0[p] # -1) =>
              WrapSub(epoch, rd0[p]) \in {0, 2}]_vars
\* Thread p takes the step and stores into the global epoch.
Stores(p) == pc[p] = "adv_store" /\ pc'[p] # pc[p]

SeenPinned(r) ==
    /\ StatePinned(r.word)
    /\ StatePinned(state[r.node])
    /\ pin_count[owner[r.node]] = r.gen
    /\ hnode[owner[r.node]] = r.node

C9_EpochStepsByTwo ==
    [][epoch' = epoch \/ epoch' = WrapAdd(epoch, 2)]_vars

\* Thread p takes the step and leaves try_advance without a store.
EndsWithoutStore(p) ==
    /\ pc[p] \in {"iter_cas", "adv_check"}
    /\ pc'[p] = "col_pop"

\* C10: try_advance stores e + 2 only after a traversal that reached the
\* end of the list without a LostRace and read only entries that were
\* unpinned or pinned at the loaded epoch e; otherwise it stores nothing
\* and returns e.
C10_StoreOnlyAfterCleanTraversal ==
    [][/\ \A p \in Threads :
             /\ Stores(p) =>
                   /\ curr[p] = NULL
                   /\ \A r \in seen[p] :
                         StatePinned(r.word) => StateEpoch(r.word) = ep[p]
                   /\ epoch' = WrapAdd(ep[p], 2)
                   /\ cep'[p] = WrapAdd(ep[p], 2)
             /\ EndsWithoutStore(p) => cep'[p] = ep[p]
       /\ epoch' # epoch => \E p \in Threads : Stores(p)]_vars

\* A traversal that read a pinned entry has reached the end of the list.
C10_Witness ==
    \E p \in Threads :
        /\ pc[p] = "adv_store"
        /\ \E r \in seen[p] : StatePinned(r.word)
        /\ Cardinality(seen[p]) = 2

\* Thread a is inside a pin of its live handle and has announced it.
HoldsPin(a) == hstat[a] = "live" /\ Announced(a)

CollectReturns(b) == PopsAt(b) /\ pc'[b] # "col_pop"

\* No participant other than b is pinned.
OnlyPinned(b) == \A a \in Threads : a # b => ~Announced(a)

ThreeCollectsDone == script = 5 /\ \A p \in Threads : pc[p] = "idle"

Outstanding(p) ==
    IF pc[p] = "idle" THEN 0
    ELSE IF guard_count[p] > 0 THEN Cardinality(guards[p])
    ELSE 1 + Len(frames[p])

\* C14: is_pinned is false exactly while no pin or guard of the participant
\* is outstanding, and the registry word is 0 then; inside the outermost
\* pin, inside nested pins and after an inner pin or a guard has ended
\* while another one is outstanding, whatever the order of the drops, the
\* participant is still pinned and its registry word still has the pinned
\* bit.
C14_PinnedUntilLastEnds ==
    \A p \in Threads :
        hstat[p] = "live" =>
            /\ is_pinned[p] = (Outstanding(p) > 0)
            /\ guard_count[p] = Cardinality(guards[p])
            /\ Outstanding(p) = 0 => state[hnode[p]] = 0
            /\ pc[p] = "in_f" => StatePinned(state[hnode[p]])

\* One participant is back in its outermost pin after a nested pin has
\* returned, another one holds a single guard after it dropped one of two.
C14_Witness ==
    \E p \in Threads, q \in Threads :
        /\ pc[p] = "in_f"
        /\ guard_count[p] = 0
        /\ deepest[p] >= 2
        /\ frames[p] = <<>>
        /\ is_pinned[p]
        /\ pc[q] = "in_f"
        /\ deepest[q] = 2
        /\ guard_count[q] = 1
        /\ is_pinned[q]

\* C15: a closure passed to defer on an unprotected scope has been executed
\* once when defer returns and is in no bag and not in the queue; a flush on
\* an unprotected scope changes neither the queue, nor a bag, nor the epoch,
\* nor what has been executed, and starts no try_advance and no collect.
C15_UnprotectedDeferRunsAtOnce ==
    /\ [](\A i \in udef :
             /\ execd[i] = 1
             /\ ~HeldLocally(i)
             /\ ~Queued(i))
    /\ [][uflush' # uflush =>
             UNCHANGED <<shared, handle, regs, pc, execd>>]_vars

\* A closure was deferred on an unprotected scope and another one on a
\* pinned scope, which waits in the local bag of the pinned participant,
\* and a flush on an unprotected scope has been made.
C15_Witness ==
    /\ udef # {}
    /\ uflush > 0
    /\ \E p \in Threads : pc[p] = "in_f" /\ bag[p] # <<>>

C17_QueueIsFifo ==
    /\ Len(msq.popped) <= Len(msq.linked)
    /\ \A k \in 1 .. Len(msq.popped) : msq.popped[k].item = msq.linked[k]
    /\ \A j, k \in 1 .. Len(msq.popped) :
          j < k =>
              /\ msq.popped[j].item # msq.popped[k].item
              /\ msq.popped[j].by = msq.popped[k].by =>
                    \E a, b \in 1 .. Len(msq.linked) :
                        /\ a < b
                        /\ msq.linked[a] = msq.popped[j].item
                        /\ msq.linked[b] = msq.popped[k].item

\* Two consumers have popped an item each while a third item is linked
\* behind a tail that lags.
C17_Witness ==
    /\ Len(msq.popped) = 2
    /\ msq.popped[1].by # msq.popped[2].by
    /\ Len(msq.linked) = 3
    /\ msq.tail # msq.linked[3]

\* The queue of bags is dropped in this step.
DropsQueue == run'.queue_dropped /\ ~run.queue_dropped

\* Closure k sits in a bag of the queue.
InQueue(k) ==
    \E j \in 1 .. Len(gq), s \in 1 .. MaxSlots : gq[j].bag.objects[s] = k

\* C18: dropping the bag queue executes the closures of every bag still in
\* it: after the drop each closure that was in the queue and had not been
\* executed has been executed exactly once, whatever the tags of the bags.
C18_QueueDropRunsAll ==
    [][DropsQueue =>
          \A k \in Closures :
              InQueue(k) /\ run.ran[k] = 0 => run'.ran[k] = 1]_vars

\* The bag that is not in the queue is dropped in this step.
DropsBag == run'.bag_dropped /\ ~run.bag_dropped

\* Closure k sits in the bag that is not in the queue.
InBag(k) == \E s \in 1 .. MaxSlots : bg.objects[s] = k

\* C19: dropping a bag that holds n closures, 0 <= n <= capacity, executes
\* each of them exactly once and executes nothing else: no other closure
\* runs, no unused slot is passed to Drop for Garbage, and the drop returns.
C19_BagDropRunsItsClosures ==
    [][DropsBag =>
          /\ \A k \in Closures :
                run'.ran[k] = run.ran[k] + (IF InBag(k) THEN 1 ELSE 0)
          /\ run'.zeroed = run.zeroed
          /\ ~run'.stopped]_vars

\* C20: the first Deferred::call on an object executes the stored function
\* once; every later call on it panics with the message CalledTwice
\* and does not execute the function again; this holds for closures
\* stored inline and for closures boxed on the heap.
C20_CallRunsOnceThenPanics ==
    \A d \in Deferreds :
        dobj[d].made =>
            /\ dobj[d].ran = (IF dobj[d].calls > 0 THEN 1 ELSE 0)
            /\ dobj[d].panics = dobj[d].calls - dobj[d].ran
            /\ dobj[d].panics > 0 =>
                  dobj[d].msg = CalledTwice
            /\ dobj[d].calls = 0 =>
                  dobj[d].vtable = BOXED
                      <=> ~StoredInline(dobj[d].size, dobj[d].align)

\* An inline closure and a boxed one have each been called more than once.
C20_Witness ==
    \E d, e \in Deferreds :
        /\ StoredInline(dobj[d].size, dobj[d].align)
        /\ ~StoredInline(dobj[e].size, dobj[e].align)
        /\ dobj[d].calls >= 2 /\ dobj[d].ran = 1 /\ dobj[d].panics >= 1
        /\ dobj[e].calls >= 2 /\ dobj[e].ran = 1 /\ dobj[e].panics >= 1

\* C21: a Deferred that is dropped before its function was called executes
\* the function exactly once in the drop; a Deferred that is dropped after
\* it was called executes nothing in the drop.
C21_DropRunsUncalled ==
    \A d \in Deferreds : dobj[d].made /\ dobj[d].dropped => dobj[d].ran = 1

\* The largest epoch of the word: 2^w - 2.
LastEpoch == EpochMod - 2

\* The step is a collect that inspects a bag tagged with the last epoch.
InspectsLast ==
    /\ wrap.queue # <<>>
    /\ Head(wrap.queue).ep = LastEpoch
    /\ wrap'.queue = Tail(wrap.queue)

\* C22: reclamation uses the distance modulo 2^w: advancing from 2^w - 2
\* gives 0 and then 2; a bag tagged 2^w - 2 is not reclaimed by a collect at
\* the epochs 2^w - 2 and 0 and is reclaimed by a collect at epoch 2.
C22_WrapAroundDistance ==
    [][/\ wrap'.advances > wrap.advances /\ wrap.epoch = LastEpoch =>
              wrap'.epoch = 0
       /\ wrap'.advances > wrap.advances /\ wrap.epoch = 0 =>
              wrap'.epoch = 2
       /\ InspectsLast /\ wrap.epoch \in {LastEpoch, 0} =>
              wrap'.freed = wrap.freed
       /\ InspectsLast /\ wrap.epoch = 2 =>
              <<LastEpoch, 2>> \in wrap'.freed]_vars

\* The epoch has wrapped, a bag tagged 2^w - 2 was reclaimed at epoch 2 and
\* another one is still queued.
C22_Witness ==
    /\ wrap.advances > EpochMod \div 2
    /\ <<LastEpoch, 2>> \in wrap.freed
    /\ wrap.queue # <<>>
    /\ Head(wrap.queue).ep = LastEpoch
    /\ wrap.epoch = 0

\* The number of tag values of a pointee of alignment align:
\* 2^floor(log2(align)).
TagRange(align) ==
    CHOOSE m \in 1 .. align :
        /\ \E k \in 0 .. WordBits : m = 2 ^ k
        /\ 2 * m > align

\* C25: for every aligned address p and every tag t below
\* 2^floor(log2(align)), decomposing the word built from (p, t) gives back
\* (p, t); with_tag(t') for any t' keeps the address and stores t' truncated
\* to the tag bits.
C25_TagRoundTrip ==
    tptr.made =>
        LET d == decompose_data(tptr.data, tptr.align)
        IN  /\ d[1] = tptr.raw
            /\ d[2] = tptr.tag % TagRange(tptr.align)
            /\ tptr.tag < TagRange(tptr.align) => d = <<tptr.raw, tptr.tag>>
            /\ tptr.data = tptr.raw + d[2]

\* A pointer to the highest address of alignment 4 carries a tag that was
\* truncated from a value with bits above the tag bits.
C25_Witness ==
    /\ tptr.made
    /\ tptr.align = 4
    /\ tptr.raw = 2 ^ WordBits - 4
    /\ tptr.tag = 2 ^ WordBits - 2
    /\ decompose_data(tptr.data, tptr.align) = <<tptr.raw, 2>>

\* Bit i of the word x.
Bit(x, i) == (x \div (2 ^ i)) % 2

\* The number of tag bits of a pointee of alignment align.
TagBits(align) == CHOOSE k \in 0 .. WordBits : 2 ^ k = TagRange(align)

\* What the operation op makes of the bits x and y.
BitOp(op, x, y) ==
    CASE op = "fetch_and" -> x * y
      [] op = "fetch_or" -> IF x + y > 0 THEN 1 ELSE 0
      [] op = "fetch_xor" -> (x + y) % 2

\* C24: fetch_and, fetch_or and fetch_xor with any operand val, bits outside
\* the tag mask included, leave the address bits of the cell as they were,
\* set every tag bit to the old bit AND/OR/XOR the bit of val, and return
\* the word held before the operation.
C24_FetchOpsKeepAddress ==
    [][atom'.op \in {"fetch_and", "fetch_or", "fetch_xor"} /\ atom' # atom =>
          /\ atom'.ret = atom.data
          /\ \A i \in 0 .. (WordBits - 1) :
                Bit(atom'.data, i) =
                    IF i < TagBits(atom.align)
                    THEN BitOp(atom'.op, Bit(atom.data, i), Bit(atom'.a, i))
                    ELSE Bit(atom.data, i)]_vars

\* On a cell with three tag bits that holds a pointer that is not null, with
\* tag 3: fetch_and(2) has returned the word with tag 3 and left tag 2 and
\* the address.
C24_Witness ==
    /\ atom.made
    /\ atom.align = 8
    /\ atom.op = "fetch_and"
    /\ atom.a = 2
    /\ atom.ret = 8 + 3
    /\ atom.data = 8 + 2

\* The compare-and-set operations, the weak ones, the owned ones.
CasOps == {"cas", "cas_weak", "cas_owned", "cas_weak_owned"}
WeakOps == {"cas_weak", "cas_weak_owned"}
OwnedOps == {"cas_owned", "cas_weak_owned"}

\* C23: compare_and_set(current, new) and its owned and weak variants: when
\* the word of the cell (address and tag) equals current, the cell becomes
\* new and the result is Ok; otherwise the cell is unchanged and the result
\* is Err with the word that is in the cell and, for the owned variants, the
\* Owned that was not installed; a weak variant may also fail when the words
\* are equal, and leaves the cell unchanged then, too.
C23_CompareAndSetResult ==
    [][atom'.op \in CasOps /\ atom' # atom =>
          /\ atom.data = atom'.a /\ atom'.op \notin WeakOps => atom'.ok
          /\ atom.data # atom'.a => ~atom'.ok
          /\ atom'.ok =>
                /\ atom.data = atom'.a
                /\ atom'.data = atom'.b
                /\ atom'.back = NONE
                /\ atom'.op \in OwnedOps => atom'.ret = atom'.b
          /\ ~atom'.ok =>
                /\ atom'.data = atom.data
                /\ atom'.ret = atom.data
                /\ IF atom'.op \in OwnedOps THEN atom'.back = atom'.b
                   ELSE atom'.back = NONE]_vars

\* A weak owned compare-and-set has failed although the cell held current:
\* the cell is unchanged, and the word of the cell and the Owned came back.
C23_Witness ==
    /\ atom.made
    /\ atom.align = 4
    /\ atom.op = "cas_weak_owned"
    /\ ~atom.ok
    /\ atom.a = atom.data
    /\ atom.ret = atom.data
    /\ atom.back = atom.b
    /\ atom.b # atom.data
    /\ atom.data % 4 = 3

\* C26: no registry entry is logically deleted while its state word has the
\* pinned bit set, so that every participant whose pinned bit is set is
\* still examined by try_advance, a handle inside its drop included.
C26_NoDeletedPinnedEntry ==
    \A n \in Nodes : del[n] => ~StatePinned(state[n])

\* C27: the storage of a registry entry is not freed before the handle that
\* owns it has made its last access to it, the set_unpinned store at the end
\* of the pin inside its drop, whoever unlinks the entry and under whichever
\* scope.
C27_EntryOutlivesHandle ==
    \A p \in Threads :
        hstat[p] # "none" => nstat[hnode[p]] # "freed"

PinnedEntry(a) == Announced(a) /\ ~del[hnode[a]]

Enqueues == Len(queue') = Len(queue) + 1

\* The tag of the entry the step appends.
EnqueuedTag == queue'[Len(queue')].ep

\* C30 as stated: the tag of every queue entry equals the value the global
\* epoch has at the moment the entry is enqueued.
C30_AsStated ==
    [][Enqueues => EnqueuedTag = epoch]_vars

\* C30: the tag of a queue entry is the global epoch that push_bag loaded
\* before it swapped the bag; when the entry is enqueued by a participant
\* whose entry is pinned and not marked deleted, the global epoch is the tag
\* or the tag + 2.
C30_TagAtMostOneBehind ==
    [][\A p \in Threads :
          Enqueues /\ pc[p] = "pb_push" /\ pc'[p] # "pb_push" =>
              /\ EnqueuedTag = pbe[p]
              /\ PinnedEntry(p) => WrapSub(epoch, EnqueuedTag) \in {0, 2}]_vars

\* Thread p has loaded the epoch in push_bag, another thread has advanced
\* the epoch since, and p, pinned and not deleted, is about to push the bag
\* with the older tag.
C30_Witness ==
    \E p \in Threads :
        /\ pc[p] = "pb_push"
        /\ PinnedEntry(p)
        /\ bag[p] # <<>>
        /\ epoch = WrapAdd(pbe[p], 2)

\* The nodes that the next step of thread p dereferences: onto in
\* push_internal (the load and the compare-and-set of onto.next), head in
\* pop_internal (the load of head.next), and next when the compare-and-set
\* of the head succeeds and the data is read out of it.
Dereferences(p) ==
    IF qop[p].pc \in {"push_next", "push_link", "pop_next"}
    THEN {qop[p].onto}
    ELSE IF qop[p].pc = "pop_cas" /\ PopCasOk(p)
         THEN {qop[p].next}
         ELSE {}

\* C28: no push or pop dereferences a queue node that has been freed.
C28_NoUseAfterFree ==
    \A p \in Threads : Dereferences(p) \cap qmem.freed = {}

\* The step is a defer: a closure is made and handed to defer_garbage.
Defers == run'.made = run.made + 1

\* The bag b with the closure k in its first unused slot.
WithClosure(b, k) ==
    [len |-> b.len + 1, objects |-> [b.objects EXCEPT ![b.len + 1] = k]]

\* C31: a defer on a bag that holds exactly the capacity enqueues one queue
\* entry that holds the bag and leaves a local bag with only the new closure;
\* a defer on a bag with fewer closures adds the closure to the local bag and
\* leaves the queue unchanged.
C31_BagBoundary ==
    [][Defers =>
          IF bg.len = MaxSlots
          THEN /\ Len(gq') = Len(gq) + 1
               /\ SubSeq(gq', 1, Len(gq)) = gq
               /\ gq'[Len(gq')].bag = bg
               /\ bg' = WithClosure(NewBag, run'.made)
          ELSE /\ gq' = gq
               /\ bg' = WithClosure(bg, run'.made)]_vars

\* The step of thread p that ends its drop.
FinishesDrop(p) == pc[p] = "drop_unpin" /\ pc'[p] # "drop_unpin"

\* C32: when the drop of a handle finishes, every closure that was in its
\* local bag is in the global queue, or a collect has executed it once under
\* the reclaim condition; its registry entry has been marked deleted, by the
\* one step of the drop that marks it.
C32_DropLosesNoClosure ==
    [][\A p \in Threads :
          /\ FinishesDrop(p) =>
                /\ \A i \in dropbag[p] : Queued(i) \/ execd[i] = 1
                /\ del[hnode[p]]
          /\ pc[p] = "drop_delete" /\ pc'[p] # "drop_delete" =>
                ~del[hnode[p]] /\ del'[hnode[p]]]_vars

\* Thread p takes the step that begins Scope::flush on its pinned scope.
BeginsFlush(p) ==
    /\ pc[p] = "in_f"
    /\ pc'[p] \in {"pb_load", "adv_load"}
    /\ ~unprot'[p]
    /\ ndefer' = ndefer

\* Thread p takes the push_bag step of a flush.
FlushPushes(p) ==
    /\ pc[p] = "pb_push"
    /\ gret[p] = "adv_load"
    /\ pc'[p] # pc[p]

\* The positions of Global::collect, try_advance included.
CollectPcs ==
    {"adv_load", "iter_init", "iter_next", "iter_cas", "adv_check",
     "adv_store", "col_pop"}

C35_DeletedFlagStays ==
    [][\A n \in ListNodes :
          /\ (n \in lst.ins /\ lst.del[n]) => lst'.del[n]
          /\ (n \notin lst.ins /\ n \in lst'.ins) => ~lst'.del[n]]_vars

\* Thread p takes a step of its list operation.
ListSteps(p) == itr'[p] # itr[p]

\* The word pred points to: the node it holds and its tag.
PredWord(l, p) ==
    IF itr[p].pred = NULL THEN <<l.head, FALSE>>
    ELSE <<l.next[itr[p].pred], l.del[itr[p].pred]>>

\* C34: an iterator yields no node whose deleted flag it observed set; a
\* node is scheduled for deferred free only by the iterator whose
\* compare-and-set of pred.next unlinked it, a losing iterator changes
\* nothing and gives one LostRace, and no node is scheduled twice.
C34_UnlinkedOnceFreedOnce ==
    /\ [](\A n \in ListNodes : lst.sched[n] <= 1)
    /\ [][\A p \in Threads :
             /\ \A n \in itr'[p].yielded \ itr[p].yielded :
                    n = itr[p].curr /\ ~lst.del[n]
             /\ (ListSteps(p) /\ itr[p].pc = "cas") =>
                    \/ /\ lst' = lst
                       /\ itr'[p].pc \in {"idle", "next"}
                       /\ itr'[p].yielded \subseteq itr[p].yielded
                    \/ /\ PredWord(lst, p) = <<itr[p].curr, itr[p].tag>>
                       /\ PredWord(lst', p) = <<itr[p].succ, FALSE>>
                       /\ lst'.sched = [lst.sched EXCEPT ![itr[p].curr] = @ + 1]
             /\ (ListSteps(p) /\ itr[p].pc # "cas") =>
                    lst'.sched = lst.sched]_vars

\* The number of places of the pipeline that hold closure i: local bags,
\* garbage waiting for push_bag, entries of the global queue.
Holders(i) ==
    Cardinality({p \in Threads : i \in BagFns(bag[p])})
    + Cardinality({p \in Threads : pend[p] = FnGarbage(i)})
    + Cardinality({k \in DOMAIN queue : i \in BagFns(queue[k].bag)})

\* C36: each deferred closure is executed at most once, by whichever thread
\* collects or drops: it is held by at most one bag or queue entry at a
\* time, and by none once it has been executed.
C36_ExecutedAtMostOnce ==
    \A i \in 1 .. MaxDefer :
        /\ execd[i] <= 1
        /\ Holders(i) <= 1
        /\ execd[i] = 1 => Holders(i) = 0

\* Two threads are inside the loop of collect at the same time and a
\* closure deferred on a pinned scope has been executed.
C36_Witness ==
    /\ \A p \in Threads : pc[p] = "col_pop"
    /\ \E i \in 1 .. MaxDefer : execd[i] = 1 /\ i \notin udef

\* Thread p takes the step that ends the first half of an outermost pin.
AnnouncesPin(p) == pc[p] = "pin_announce" /\ pc'[p] # "pin_announce"

\* The step of thread p is the call of collect that Handle::pin makes.
PinCollects(p) == pc'[p] = "adv_load" /\ cret'[p] = "pin_body"

\* C37 as stated: an outermost pin invokes collect exactly when the pin
\* counter, after this pin's increment, is a multiple of
\* PINS_BETWEEN_COLLECT.
C37_AsStated ==
    [][\A p \in Threads :
          AnnouncesPin(p) =>
              (PinCollects(p) <=> pin_count[p] % PINS_BETWEEN_COLLECT = 0)]_vars

\* C37: an outermost pin increments the pin counter and invokes collect
\* exactly when the counter was a multiple of PINS_BETWEEN_COLLECT before
\* this increment: on the first pin of a handle and then on every pin
\* that follows PINS_BETWEEN_COLLECT - 1 pins without a collect.
C37_CollectOncePer128 ==
    [][\A p \in Threads :
          /\ (pc[p] = "idle" /\ pc'[p] = "pin_announce") =>
                pin_count'[p] = (pin_count[p] + 1) % (2 ^ PinCountBits)
          /\ AnnouncesPin(p) =>
                /\ PinCollects(p) <=>
                       (pin_count[p] - 1) % PINS_BETWEEN_COLLECT = 0
                /\ PinCollects(p) =>
                       quiet[p] \in {-1, PINS_BETWEEN_COLLECT - 1}
                /\ ~PinCollects(p) =>
                       quiet[p] \in 0 .. (PINS_BETWEEN_COLLECT - 2)]_vars

\* The pin counter has passed PINS_BETWEEN_COLLECT and the pin that found
\* it at that value is inside the collect it invoked.
C37_Witness ==
    \E p \in Threads :
        /\ pc[p] = "adv_load"
        /\ cret[p] = "pin_body"
        /\ pin_count[p] = PINS_BETWEEN_COLLECT + 1

\* Thread p enters or leaves a Handle::pin that is nested in another one.
NestedPinStep(p) ==
    /\ pc[p] = "in_f"
    /\ is_pinned[p]
    /\ frames'[p] # frames[p]

\* C38: a nested pin, at its beginning and at its end, leaves the state
\* word of the participant, its pin counter, the global epoch, the local
\* bag and the queue as they are and does not call collect.
C38_NestedPinFrame ==
    [][\A p \in Threads :
          NestedPinStep(p) =>
              /\ state' = state
              /\ pin_count' = pin_count
              /\ is_pinned' = is_pinned
              /\ epoch' = epoch
              /\ bag' = bag
              /\ pend' = pend
              /\ queue' = queue
              /\ execd' = execd
              /\ pc'[p] = "in_f"]_vars

\* A pin is nested in a pin whose counter value would let an outermost pin
\* call collect, while the local bag and the queue hold closures.
C38_Witness ==
    \E p \in Threads :
        /\ pc[p] = "in_f"
        /\ frames[p] # <<>>
        /\ pin_count[p] % PINS_BETWEEN_COLLECT = 0
        /\ bag[p] # <<>>
        /\ queue # <<>>

\* Thread p takes a step of the unwinding of a panic.
Unwinds(p) == pc[p] = "unwind" /\ (pc'[p] = "idle" \/ frames'[p] # frames[p])

\* The participant of thread p is pinned in its registry entry and in its
\* handle.
PinnedBoth(p) == is_pinned[p] /\ StatePinned(state[hnode[p]])

\* C39: a panic of the function of an outermost pin unpins the participant
\* (registry word 0, is_pinned false); a panic that leaves a nested pin
\* leaves the participant pinned, and it stays pinned while the unwinding
\* has not passed the outermost pin.
C39_PanicUnpins ==
    /\ [](\A p \in Threads : pc[p] = "unwind" => PinnedBoth(p))
    /\ [][\A p \in Threads :
             /\ (Unwinds(p) /\ frames[p] = <<>>) =>
                    /\ state'[hnode[p]] = 0
                    /\ ~is_pinned'[p]
                    /\ pc'[p] = "idle"
             /\ (Unwinds(p) /\ frames[p] # <<>>) =>
                    /\ state' = state
                    /\ is_pinned'[p]
                    /\ pc'[p] \in {"unwind", "in_f"}]_vars

\* A panic raised inside a nested pin has unwound to the outermost pin of a
\* participant that is still pinned, while the other thread is in
\* try_advance.
C39_Witness ==
    \E p \in Threads, q \in Threads :
        /\ pc[p] = "unwind"
        /\ frames[p] = <<>>
        /\ deepest[p] >= 2
        /\ pc[q] = "adv_check"

\* Thread p is inside Epoch::try_advance, the push_bag of a defer_free of
\* its iterator included.
InTryAdvance(p) ==
    \/ pc[p] \in {"adv_load", "iter_init", "iter_next", "iter_cas",
                  "adv_check", "adv_store"}
    \/ pc[p] \in {"pb_load", "pb_push"} /\ gret[p] \in {"iter_next", "adv_store"}

\* The work a call of try_advance has left in state s: the entries are
\* linked in the order of their insertion, newest first, so the entries
\* behind curr are those with smaller numbers.
Remaining(pcp, c) ==
    CASE pcp = "adv_load" -> 4 * MaxNodes + 8
      [] pcp = "iter_init" -> 4 * MaxNodes + 7
      [] pcp = "adv_check" -> 4 * c + 6
      [] pcp = "pb_load" -> 4 * c + 5
      [] pcp = "pb_push" -> 4 * c + 4
      [] pcp = "iter_next" -> 4 * c + 3
      [] pcp = "iter_cas" -> 4 * c + 2
      [] pcp = "adv_store" -> 1
      [] OTHER -> 0

\* C40: every call of try_advance returns, and it does so after one pass:
\* each of its steps moves it forward (the traversal never goes back to an
\* entry or to the head), and a step at its store ends the call.
C40_TryAdvanceOnePass ==
    /\ \A p \in Threads : InTryAdvance(p) ~> ~InTryAdvance(p)
    /\ [][\A p \in Threads :
             (InTryAdvance(p) /\ <<pc[p], curr[p]>> # <<pc'[p], curr'[p]>>) =>
                 /\ Remaining(pc'[p], curr'[p]) < Remaining(pc[p], curr[p])
                 /\ InTryAdvance(p)' \/ pc'[p] = "col_pop"
                 /\ pc[p] = "adv_store" => pc'[p] = "col_pop"
                 /\ epoch' # epoch => pc[p] = "adv_store"]_vars

\* A traversal stands at a deleted entry, about to try the compare-and-set
\* that unlinks it, while the owner of the entry is still inside the drop
\* of its handle.
C40_Witness ==
    \E p \in Threads, q \in Threads :
        /\ p # q
        /\ pc[p] = "iter_cas"
        /\ curr[p] = hnode[q]
        /\ hstat[q] = "dropping"

====
